---- MODULE Spec2Model ----
(***************************************************************************)
(* LLM token visualizer: the analysis engine (AnalysisEngine.ts), the      *)
(* parts of TokenizerService / ModelService it drives, and the pure        *)
(* helpers of mathUtils.ts / textUtils.ts.                                 *)
(*                                                                         *)
(* JavaScript runs one continuation at a time; an async function runs      *)
(* synchronously up to its next `await` and is resumed later by the event  *)
(* loop.  Every action below is one such continuation: it starts where a   *)
(* call is made or an awaited promise settles and ends at the next await   *)
(* or at the settlement of the call.                                       *)
(***************************************************************************)
EXTENDS Integers, Sequences, FiniteSets, Bags, TLC

(***************************************************************************)
(* Bounds of the model.                                                    *)
(***************************************************************************)
MaxTokens == 5          \* longest token sequence a tokenizer / caller supplies
MaxTextLen == 2         \* longest input text, in characters
MaxVocab == 4           \* longest distribution handed to mathUtils on its own
MaxResults == 4         \* longest result list handed to calculateStatistics
LongSequenceLength == 11  \* tokens of the one long sequence a run is followed over
MaxLoads == 3           \* calls of loadModel, and of loadTokenizer, that are followed
ShortSequenceLength == 3  \* config.maxSequenceLength of a ModelService with a short limit
MaxChunkTextLen == 3    \* longest text handed to chunkText and wordWrap, in characters
MaxWidth == 2           \* largest maxChunkSize of chunkText and width of wordWrap

(***************************************************************************)
(* Program constants.                                                      *)
(***************************************************************************)
INITIAL_TOKENS_COUNT == 3        \* MODEL_CONFIG.INITIAL_TOKENS_COUNT
MAX_SEQUENCE_LENGTH == 8192      \* MODEL_CONFIG.MAX_SEQUENCE_LENGTH

(***************************************************************************)
(* Optional values: null / undefined is the empty sequence, a present      *)
(* value v is <<v>>.                                                       *)
(***************************************************************************)
Null == <<>>
Some(v) == <<v>>
IsNull(o) == o = <<>>
Val(o) == o[1]

Min(a, b) == IF a <= b THEN a ELSE b
Max(a, b) == IF a >= b THEN a ELSE b

(***************************************************************************)
(* Array.prototype.slice(start, end) on a sequence (0-based, end exclusive,*)
(* negative indices count from the end, out-of-range indices are clamped). *)
(***************************************************************************)
SliceIndex(k, len) == IF k < 0 THEN Max(len + k, 0) ELSE Min(k, len)
Slice(s, start, end) ==
  LET from == SliceIndex(start, Len(s))
      to   == SliceIndex(end, Len(s))
  IN  IF to <= from THEN <<>> ELSE SubSeq(s, from + 1, to)

(***************************************************************************)
(* textUtils.preprocessText.  A text is a sequence of characters.          *)
(***************************************************************************)
Chars == {"a", "SP", "TAB", "CR", "LF"}
Whitespace == {"SP", "TAB", "CR", "LF"}

RECURSIVE ReplaceCRLF(_)
ReplaceCRLF(s) ==                                   \* .replace(/\r\n/g, '\n')
  IF Len(s) = 0 THEN <<>>
  ELSE IF Len(s) >= 2 /\ s[1] = "CR" /\ s[2] = "LF"
       THEN <<"LF">> \o ReplaceCRLF(SubSeq(s, 3, Len(s)))
       ELSE <<s[1]>> \o ReplaceCRLF(Tail(s))

ReplaceChar(s, from, to) ==                         \* .replace(/<from>/g, to)
  [k \in 1..Len(s) |-> IF s[k] = from THEN to ELSE s[k]]

RECURSIVE CollapseSpaces(_)
CollapseSpaces(s) ==                                \* .replace(/[ ]+/g, ' ')
  IF Len(s) = 0 THEN <<>>
  ELSE IF Len(s) >= 2 /\ s[1] = "SP" /\ s[2] = "SP"
       THEN CollapseSpaces(Tail(s))
       ELSE <<s[1]>> \o CollapseSpaces(Tail(s))

RECURSIVE TrimStart(_)
TrimStart(s) ==
  IF Len(s) > 0 /\ s[1] \in Whitespace THEN TrimStart(Tail(s)) ELSE s

RECURSIVE TrimEnd(_)
TrimEnd(s) ==
  IF Len(s) > 0 /\ s[Len(s)] \in Whitespace
  THEN TrimEnd(SubSeq(s, 1, Len(s) - 1)) ELSE s

Trim(s) == TrimEnd(TrimStart(s))                    \* .trim()

preprocessTextUntrimmed(text) ==
  CollapseSpaces(ReplaceChar(ReplaceChar(ReplaceCRLF(text), "CR", "LF"),
                             "TAB", "SP"))
preprocessText(text) ==
  Trim(CollapseSpaces(ReplaceChar(ReplaceChar(ReplaceCRLF(text), "CR", "LF"),
                                  "TAB", "SP")))

(***************************************************************************)
(* textUtils.chunkText / wordWrap.  A chunk, a line and a word are         *)
(* character sequences; the result is a sequence of them.                  *)
(***************************************************************************)
\* text.split(/\s+/): every run of whitespace separates two words, so a text
\* that starts (ends) with whitespace has an empty first (last) word, and the
\* empty text gives one empty word.
SplitWhitespace(text) ==
  LET words[k \in 0..Len(text)] ==
        IF k = 0 THEN << <<>> >>
        ELSE IF text[k] \in Whitespace
             THEN IF k > 1 /\ text[k - 1] \in Whitespace
                  THEN words[k - 1]
                  ELSE Append(words[k - 1], <<>>)
             ELSE [words[k - 1] EXCEPT ![Len(words[k - 1])] = Append(@, text[k])]
  IN  words[Len(text)]

\* word.substring(start) and word.substring(0, end) for 0 <= start, end
Substring(word, start, end) == SubSeq(word, Min(start, Len(word)) + 1, Min(end, Len(word)))

\* the loop over the words and the final push, shared by the two functions
\* (chunkText lines 25-45, wordWrap lines 136-155)
RECURSIVE WrapWords(_, _, _, _)
WrapWords(words, width, lines, currentLine) ==
  IF words = <<>>
  THEN IF currentLine # <<>> THEN Append(lines, currentLine) ELSE lines
  ELSE LET word == Head(words)
           testLine == IF currentLine # <<>> THEN currentLine \o <<"SP">> \o word
                       ELSE word
       IN  IF Len(testLine) <= width
           THEN WrapWords(Tail(words), width, lines, testLine)
           ELSE IF currentLine # <<>>
           THEN WrapWords(Tail(words), width, Append(lines, currentLine), word)
           ELSE WrapWords(Tail(words), width,
                          Append(lines, Substring(word, 0, width)),
                          Substring(word, width, Len(word)))

chunkText(text, maxChunkSize) ==
  IF Len(text) <= maxChunkSize THEN <<text>>
  ELSE WrapWords(SplitWhitespace(text), maxChunkSize, <<>>, <<>>)

wordWrap(text, width) == WrapWords(SplitWhitespace(text), width, <<>>, <<>>)

(***************************************************************************)
(* mathUtils.calculateTokenRank / calculateCumulativeProbability.          *)
(* A distribution is a sequence of probabilities in tenths (index k holds  *)
(* token id k-1).  Array.prototype.sort is stable: pairs of equal          *)
(* probability keep their index order.                                     *)
(***************************************************************************)
ProbabilityPairs(probabilities) ==
  [k \in 1..Len(probabilities) |-> [prob |-> probabilities[k], index |-> k - 1]]

\* insert p behind every pair that does not sort after it (b.prob - a.prob <= 0)
RECURSIVE InsertDescendingBeforeEqual(_, _)
InsertDescendingBeforeEqual(sorted, p) ==                 \* an unstable order
  IF Len(sorted) = 0 THEN <<p>>
  ELSE IF p.prob - sorted[1].prob >= 0
       THEN <<p>> \o sorted
       ELSE <<sorted[1]>> \o InsertDescendingBeforeEqual(Tail(sorted), p)

RECURSIVE InsertDescending(_, _)
InsertDescending(sorted, p) ==
  IF Len(sorted) = 0 THEN <<p>>
  ELSE IF p.prob - sorted[1].prob > 0
       THEN <<p>> \o sorted
       ELSE <<sorted[1]>> \o InsertDescending(Tail(sorted), p)

RECURSIVE SortDescending(_)
SortDescending(pairs) ==
  IF Len(pairs) = 0 THEN <<>>
  ELSE InsertDescending(SortDescending(SubSeq(pairs, 1, Len(pairs) - 1)),
                        pairs[Len(pairs)])

\* Array.prototype.findIndex: 0-based index of the first match, -1 if none
FindIndex(pairs, targetTokenId) ==
  LET hits == {k \in 1..Len(pairs) : pairs[k].index = targetTokenId}
  IN  IF hits = {} THEN -1
      ELSE (CHOOSE k \in hits : \A j \in hits : k <= j) - 1

calculateTokenRankUnchecked(probabilities, targetTokenId) ==   \* returns the -1
  FindIndex(SortDescending(ProbabilityPairs(probabilities)), targetTokenId)

calculateTokenRank(probabilities, targetTokenId) ==
  LET rank == FindIndex(SortDescending(ProbabilityPairs(probabilities)),
                        targetTokenId)
  IN  IF rank = -1 THEN Len(probabilities) ELSE rank

SumProbsAssigned(pairs, n) ==                   \* `=` instead of `+=`
  IF n <= 0 THEN 0 ELSE pairs[n].prob

RECURSIVE SumProbs(_, _)
SumProbs(pairs, n) ==
  IF n <= 0 THEN 0 ELSE SumProbs(pairs, n - 1) + pairs[n].prob

calculateCumulativeProbabilityInclusive(probabilities, rank) ==   \* i <= rank
  LET sorted == SortDescending(ProbabilityPairs(probabilities))
  IN  SumProbs(sorted, Min(Max(rank + 1, 0), Len(sorted)))

calculateCumulativeProbability(probabilities, rank) ==
  LET sorted == SortDescending(ProbabilityPairs(probabilities))
  IN  SumProbs(sorted, Min(Max(rank, 0), Len(sorted)))

(***************************************************************************)
(* Inputs.  A Predictor distribution (in tenths) is an array over ids 0..3, *)
(* which hold every token id below, or the array of a model whose          *)
(* vocabulary (ids 0..1) is smaller than the tokenizer's.                  *)
(***************************************************************************)
Tokens == {0, 2}
Dists == {<<1, 5, 3, 1>>, <<6, 4>>}

SeqsUpTo(S, n) == UNION {[1..k -> S] : k \in 0..n}
TokenSeqs == SeqsUpTo(Tokens, MaxTokens)
Texts == SeqsUpTo(Chars, MaxTextLen)

\* AnalysisConfig as a caller may pass it: maxLength is the only field the
\* engine reads; initialTokensCount is the prefix size the caller asks for.
Configs ==
  [maxLength : {Null} \cup {Some(m) : m \in -1..MaxTokens},
   initialTokensCount : {Null, Some(1)}]
NoConfig == [maxLength |-> Null, initialTokensCount |-> Null]

\* the inputs of the runs with two concurrent callers
SampleSeqs ==
  {s \in TokenSeqs : \A k \in 1..Len(s) : s[k] = IF k % 2 = 1 THEN 0 ELSE 2}
SampleTexts == {<<"a">>, <<"SP">>}

\* one sequence long enough for (i + 1) / n * 100 to start below 10
LongSeqs == {[k \in 1..LongSequenceLength |-> 0]}
SampleConfigs == {NoConfig}

\* whether the callback a caller passes throws when it is invoked
CallbackThrows == BOOLEAN
SampleCallbackThrows == {FALSE}

Callers == {"A", "B"}

(***************************************************************************)
(* State.                                                                  *)
(*   isAnalyzing, progressCallbacks : the fields of the AnalysisEngine     *)
(*       singleton; a callback is named by the call it was passed to.      *)
(*   tokenizer : TokenizerService.tokenizer, "null" until a load sets it.  *)
(*   call[c] : the frame of caller c's current (or last settled) call of   *)
(*       analyzeText / analyzeTokenSequence: the operation, where it is    *)
(*       suspended (pc), its arguments and locals, what it settled with,   *)
(*       and the log of the runInference calls it made.  `encoded` is the  *)
(*       tokenizer's output (tokenIds of analyzeText), `tokenIds` the      *)
(*       sequence being scanned (tokenIds of analyzeTokenSequence).  The   *)
(*       text is dropped once the tokenizer has answered.                  *)
(*       `throws` tells whether the callback passed as onProgress throws   *)
(*       when it is invoked.                                               *)
(*   math : the arguments and the return value of one call of a function   *)
(*       of mathUtils made on its own (not from a scan).                   *)
(*   modelService : the ModelService singleton: its session, isLoading and  *)
(*       config.maxSequenceLength, the browser cache entry for the model   *)
(*       path, the position of the loadModel call that is loading, and the *)
(*       outcome of a runInference call made on its own.  loads[k] is the  *)
(*       k-th loadModel call: whether it passed onProgress, how it         *)
(*       settled, and how many 'ready' and 'error' events its callback     *)
(*       was invoked with; loadingCallbacks names the callbacks by the     *)
(*       call that passed them and loader is the call that is loading.     *)
(*   tokenizerService : the isLoading flag of the TokenizerService         *)
(*       singleton, the position of the loadTokenizer call that is loading *)
(*       and which tokenizer object this.tokenizer holds.                  *)
(*   app : the React state of the App component that handleAnalyze sets:   *)
(*       isAnalyzing, whether analysisResults holds results, and           *)
(*       analysisError.                                                    *)
(*   textUtils : a call of chunkText or wordWrap on its own: the function, *)
(*       its arguments and what it returned.                               *)
(*   received[c], lastEvent[c] : the progress events the callback passed   *)
(*       to c's call has been invoked with (a bag), and the latest one.    *)
(***************************************************************************)
VARIABLES isAnalyzing, progressCallbacks, tokenizer, call, received, lastEvent,
          math, modelService, tokenizerService, app, textUtils

vars == <<isAnalyzing, progressCallbacks, tokenizer, call, received, lastEvent, math,
          modelService, tokenizerService, app, textUtils>>

Settled == {"returned", "failed", "rejected"}
Scanning == {"decode", "decodeRejected", "infer", "yield"}

NewCall(opName, txt, cfg, cb) ==
  [op |-> opName, pc |-> "idle", text |-> txt, config |-> cfg, onProgress |-> cb,
   encoded |-> Null, tokenIds |-> <<>>, i |-> 0, results |-> <<>>,
   error |-> <<>>, inferenceLog |-> <<>>, throws |-> FALSE]

\* no call of a mathUtils function on its own
NoMath ==
  [op |-> "none", d |-> <<>>, t |-> 0, r |-> 0, results |-> <<>>,
   out |-> Null, threw |-> FALSE]

\* The ModelService singleton as seen from a scan: loadModel and dispose run
\* independently of the analysis engine, so a runInference call of a scan may
\* find the session set or null (observed = FALSE leaves that open).
NoModelService ==
  [observed |-> FALSE, session |-> "null", isLoading |-> FALSE,
   maxSequenceLength |-> MAX_SEQUENCE_LENGTH, cached |-> FALSE, pc |-> "idle",
   calls |-> 0, fetches |-> 0, downloads |-> 0, run |-> Null,
   loadingCallbacks |-> <<>>, loader |-> 0, loads |-> <<>>]

\* The TokenizerService singleton with no loadTokenizer call followed step by step.
NoTokenizerService ==
  [isLoading |-> FALSE, pc |-> "idle", calls |-> 0, tried |-> <<>>, kept |-> "none"]

\* The App component as it mounts (part_000 lines 12-22, the initial useState
\* values): modelLoaded, analysisResults, isAnalyzing and analysisError.
NoApp ==
  [modelLoaded |-> FALSE, analysisResults |-> <<>>, isAnalyzing |-> FALSE,
   analysisError |-> Null]

\* no call of a textUtils function on its own
NoTextUtils == [op |-> "none", text |-> <<>>, width |-> 0, out |-> Null]

Init ==
  /\ modelService = NoModelService
  /\ tokenizerService = NoTokenizerService
  /\ app = NoApp
  /\ textUtils = NoTextUtils
  /\ isAnalyzing = FALSE
  /\ progressCallbacks = <<>>
  /\ tokenizer = "null"
  /\ call = [c \in Callers |-> NewCall("none", <<>>, NoConfig, FALSE)]
  /\ received = [c \in Callers |-> EmptyBag]
  /\ lastEvent = [c \in Callers |-> Null]
  /\ math = NoMath

(***************************************************************************)
(* Error messages (an Error's message, as its parts).                      *)
(***************************************************************************)
ErrInProgress == <<"Analysis already in progress">>
ErrEmptyText == <<"Text is empty after preprocessing">>
ErrNoTokens == <<"No tokens generated from text">>
ErrTokenizerNotLoaded == <<"Tokenizer not loaded. Call loadTokenizer() first.">>
ErrTokenize == <<"Failed to tokenize text: ">>
ErrSubscriber == <<"thrown by a progress callback">>
AnalysisFailed(message) == <<"Analysis failed: ">> \o message

(***************************************************************************)
(* AnalysisEngine.notifyProgress: every registered callback is invoked     *)
(* with the event, in registration order.                                  *)
(***************************************************************************)
Invocations(callbacks, s) == Cardinality({k \in 1..Len(callbacks) : callbacks[k] = s})

notifyProgress(callbacks, progress, rec, last) ==
  /\ received' = [s \in Callers |->
        IF Invocations(callbacks, s) = 0 THEN rec[s]
        ELSE rec[s] (+) [e \in {progress} |-> Invocations(callbacks, s)]]
  /\ lastEvent' = [s \in Callers |->
        IF Invocations(callbacks, s) = 0 THEN last[s] ELSE Some(progress)]

\* notifyProgress, lines 338-342: whether an exception thrown by one of the
\* callbacks leaves notifyProgress; the try/catch around each invocation logs
\* it and goes on
Throwers == {s \in Callers : call[s].throws}
NotifyProgressThrowsUncaught(callbacks, throwers) ==
  \E k \in 1..Len(callbacks) : callbacks[k] \in throwers
NotifyProgressThrows(callbacks, throwers) == FALSE

\* a percentage is kept as the exact fraction num/den
Percent(num, den) == [num |-> num, den |-> den]
TokenizingEvent ==
  [current |-> 0, total |-> 100, percentage |-> Percent(5, 1),
   currentToken |-> <<"Tokenizing...">>]
StartingEvent(n) ==
  [current |-> 0, total |-> n, percentage |-> Percent(10, 1),
   currentToken |-> <<"Starting analysis...">>]
CompleteEvent(n) ==
  [current |-> n, total |-> n, percentage |-> Percent(100, 1),
   currentToken |-> <<"Complete!">>]
PositionEventCountsAhead(i, n, token) ==
  [current |-> i + 2, total |-> n, percentage |-> Percent((i + 2) * 100, n),
   currentToken |-> token]
PositionEvent(i, n, token) ==
  [current |-> i + 1, total |-> n, percentage |-> Percent((i + 1) * 100, n),
   currentToken |-> token]

(***************************************************************************)
(* The pieces of analyzeText / analyzeTokenSequence.                       *)
(***************************************************************************)
\* analyzeText, line 92: the reentrancy check
NeverInProgress == FALSE
AlreadyInProgress == isAnalyzing

\* analyzeText, lines 115-116: config?.maxLength || tokenIds.length, then slice
LimitedTokenIdsOneMore(tokenIds, cfg) ==
  LET maxLength == IF IsNull(cfg.maxLength) \/ Val(cfg.maxLength) = 0
                   THEN Len(tokenIds) ELSE Val(cfg.maxLength)
  IN  Slice(tokenIds, 0, maxLength + 1)
LimitedTokenIds(tokenIds, cfg) ==
  LET maxLength == IF IsNull(cfg.maxLength) \/ Val(cfg.maxLength) = 0
                   THEN Len(tokenIds) ELSE Val(cfg.maxLength)
  IN  Slice(tokenIds, 0, maxLength)

\* analyzeTokenSequence, line 151
InitialTokensCountNone(tokenIds) == 0
InitialTokensCountOffByOne(tokenIds) == Min(INITIAL_TOKENS_COUNT - 1, Len(tokenIds))
InitialTokensCount(tokenIds) == Min(INITIAL_TOKENS_COUNT, Len(tokenIds))

\* analyzeTokenSequence, line 184
ContextTokensWithTarget(tokenIds, i) == Slice(tokenIds, 0, i + 1)
ContextTokens(tokenIds, i) == Slice(tokenIds, 0, i)

\* TokenizerService.decodeToken with a tokenizer set: the decoder's text
decodeToken(tokenId) == <<"tok", tokenId>>

\* analyzeTokenSequence, lines 161-169
InitialResult(i, tokenId, token) ==
  [position |-> i, token |-> token, tokenId |-> tokenId, rank |-> Null,
   probability |-> Null, cumulativeProbability |-> Null, isInitial |-> TRUE]

\* analyzeTokenSequence, lines 193-211; probabilities[targetTokenId] || 0
PredictedResultFalsyRank(i, tokenId, token, probabilities) ==     \* rank || null
  LET rank == calculateTokenRank(probabilities, tokenId)
  IN  [position |-> i, token |-> token, tokenId |-> tokenId,
       rank |-> IF rank = 0 THEN Null ELSE Some(rank),
       probability |-> Some(IF tokenId + 1 \in DOMAIN probabilities
                            THEN probabilities[tokenId + 1] ELSE 0),
       cumulativeProbability |->
         Some(calculateCumulativeProbability(probabilities, rank)),
       isInitial |-> FALSE]
PredictedResultOneBasedRank(i, tokenId, token, probabilities) ==   \* rank + 1
  LET rank == calculateTokenRank(probabilities, tokenId)
  IN  [position |-> i, token |-> token, tokenId |-> tokenId,
       rank |-> Some(rank + 1),
       probability |-> Some(IF tokenId + 1 \in DOMAIN probabilities
                            THEN probabilities[tokenId + 1] ELSE 0),
       cumulativeProbability |->
         Some(calculateCumulativeProbability(probabilities, rank)),
       isInitial |-> FALSE]
PredictedResult(i, tokenId, token, probabilities) ==
  LET rank == calculateTokenRank(probabilities, tokenId)
  IN  [position |-> i, token |-> token, tokenId |-> tokenId,
       rank |-> Some(rank),
       probability |-> Some(IF tokenId + 1 \in DOMAIN probabilities
                            THEN probabilities[tokenId + 1] ELSE 0),
       cumulativeProbability |->
         Some(calculateCumulativeProbability(probabilities, rank)),
       isInitial |-> FALSE]

\* analyzeTokenSequence, lines 217-225
FailedResultMarkedInitial(i, tokenId, token) ==
  [position |-> i, token |-> token, tokenId |-> tokenId, rank |-> Null,
   probability |-> Null, cumulativeProbability |-> Null, isInitial |-> TRUE]
FailedResultZeroProbability(i, tokenId, token) ==
  [position |-> i, token |-> token, tokenId |-> tokenId, rank |-> Null,
   probability |-> Some(0), cumulativeProbability |-> Null, isInitial |-> FALSE]
FailedResult(i, tokenId, token) ==
  [position |-> i, token |-> token, tokenId |-> tokenId, rank |-> Null,
   probability |-> Null, cumulativeProbability |-> Null, isInitial |-> FALSE]

\* ModelService.runInference, lines 728-875: what a call with these input ids
\* can settle with when the session and the limit are as given.  The three
\* checks of lines 729-739 throw before the try; past them session.run is
\* invoked and either yields a distribution or throws (rethrown at line 873).
ErrModelNotLoaded == <<"Model not loaded. Call loadModel() first.">>
ErrEmptyInput == <<"Input sequence cannot be empty">>
ErrInputTooLong == <<"Input sequence too long. Maximum length: ">>
ErrInference == <<"Inference failed: ">>

Thrown(message, ran) ==
  [ok |-> FALSE, probabilities |-> <<>>, error |-> message, sessionRun |-> ran]

RunInferenceOutcomesNoLengthCheck(session, maxSequenceLength, inputIds) ==
  IF session = "null" THEN {Thrown(ErrModelNotLoaded, FALSE)}
  ELSE IF Len(inputIds) = 0 THEN {Thrown(ErrEmptyInput, FALSE)}
  ELSE {Thrown(ErrInference, TRUE)}
         \cup {[ok |-> TRUE, probabilities |-> d, error |-> <<>>, sessionRun |-> TRUE] :
                 d \in Dists}

RunInferenceOutcomes(session, maxSequenceLength, inputIds) ==
  IF session = "null" THEN {Thrown(ErrModelNotLoaded, FALSE)}
  ELSE IF Len(inputIds) = 0 THEN {Thrown(ErrEmptyInput, FALSE)}
  ELSE IF Len(inputIds) > maxSequenceLength
  THEN {Thrown(ErrInputTooLong \o <<maxSequenceLength>>, FALSE)}
  ELSE {Thrown(ErrInference, TRUE)}
         \cup {[ok |-> TRUE, probabilities |-> d, error |-> <<>>, sessionRun |-> TRUE] :
                 d \in Dists}

\* the states the session may be in when a scan calls runInference
Sessions == IF modelService.observed THEN {modelService.session} ELSE {"null", "set"}

\* what the scan's try/catch sees of a runInference call: a distribution or a throw
InferenceFailure == [ok |-> FALSE, probabilities |-> <<>>]
InferenceSuccess(d) == [ok |-> TRUE, probabilities |-> d]
runInference(inputIds) ==
  {[ok |-> o.ok, probabilities |-> o.probabilities] :
     o \in UNION {RunInferenceOutcomes(session, modelService.maxSequenceLength, inputIds) :
                    session \in Sessions}}

\* analyzeTokenSequence, line 150: the result list of a scan is a new local
\* array of the call
NewResultsKeptOnEngine(c) ==             \* one array kept on the engine
  LET earlier == {d \in Callers \ {c} : call[d].pc = "returned"}
  IN  IF earlier = {} THEN <<>> ELSE call[CHOOSE d \in earlier : TRUE].results
NewResults(c) == <<>>

\* where a scan over ids is suspended when it is entered or proceeds to
\* position i: at the await of decodeToken, or returned when no position is left
ScanPcStopsEarly(opName, ids, i) ==
  IF i + 1 < Len(ids)
  THEN (IF tokenizer = "null" THEN "decodeRejected" ELSE "decode")
  ELSE (IF opName = "analyzeText" THEN "awaitScan" ELSE "returned")
ScanPc(opName, ids, i) ==
  IF i < Len(ids)
  THEN (IF tokenizer = "null" THEN "decodeRejected" ELSE "decode")
  ELSE (IF opName = "analyzeText" THEN "awaitScan" ELSE "returned")

(***************************************************************************)
(* analyzeText, lines 140-143: the finally block.                          *)
(***************************************************************************)
AnalyzeTextFinallyKeepsFlag ==
  /\ progressCallbacks' = <<>>
  /\ UNCHANGED isAnalyzing
AnalyzeTextFinally ==
  /\ isAnalyzing' = FALSE
  /\ progressCallbacks' = <<>>

\* analyzeText, lines 137-143: an error thrown inside the try is wrapped and
\* rethrown, and the finally block runs
AnalyzeTextFails(c, frame, message) ==
  /\ call' = [call EXCEPT ![c] =
        [frame EXCEPT !.pc = "failed", !.error = AnalysisFailed(message)]]
  /\ AnalyzeTextFinally

(***************************************************************************)
(* analyzeText(text, config, onProgress) is called (lines 87-108): the     *)
(* reentrancy check, registration of the callback, preprocessing, the      *)
(* 'Tokenizing...' event and the call of tokenizerService.encode, whose    *)
(* promise is already rejected when no tokenizer is set.                   *)
(***************************************************************************)
AnalyzeTextEnters(c, texts, configs, subscribing, throwing) ==
  /\ call[c].pc = "idle"
  /\ \E txt \in texts, cfg \in configs, cb \in subscribing :
     \E th \in (IF cb THEN throwing ELSE {FALSE}) :
     LET fresh == [NewCall("analyzeText", txt, cfg, cb) EXCEPT !.throws = th]
         callbacks == IF cb THEN Append(progressCallbacks, c) ELSE progressCallbacks
     IN  IF AlreadyInProgress
         THEN /\ call' = [call EXCEPT ![c] =
                   [fresh EXCEPT !.pc = "rejected", !.error = ErrInProgress]]
              /\ UNCHANGED <<isAnalyzing, progressCallbacks, tokenizer,
                             received, lastEvent>>
         ELSE IF preprocessText(txt) = <<>>
         THEN /\ AnalyzeTextFails(c, fresh, ErrEmptyText)
              /\ UNCHANGED <<tokenizer, received, lastEvent>>
         ELSE IF NotifyProgressThrows(callbacks, IF th THEN Throwers \cup {c} ELSE Throwers)
         THEN /\ notifyProgress(callbacks, TokenizingEvent, received, lastEvent)
              /\ AnalyzeTextFails(c, fresh, ErrSubscriber)
              /\ UNCHANGED tokenizer
         ELSE /\ isAnalyzing' = TRUE
              /\ progressCallbacks' = callbacks
              /\ notifyProgress(callbacks, TokenizingEvent, received, lastEvent)
              /\ call' = [call EXCEPT ![c] =
                   [fresh EXCEPT !.pc = IF tokenizer = "null"
                                        THEN "encodeRejected" ELSE "encode"]]
              /\ UNCHANGED tokenizer

AnalyzeTextCall(c, texts, configs, throwing) ==
  /\ UNCHANGED <<math, modelService, tokenizerService, app, textUtils>>
  /\ AnalyzeTextEnters(c, texts, configs, BOOLEAN, throwing)

(***************************************************************************)
(* The promise of tokenizerService.encode settles (lines 108-126 of        *)
(* analyzeText, lines 423-441 of encode): rejected when there was no       *)
(* tokenizer or the tokenizer threw, else fulfilled with the token ids.    *)
(* Then the zero-token check, the maxLength limit, the 'Starting           *)
(* analysis...' event and the call of analyzeTokenSequence, which runs up  *)
(* to its first await.                                                     *)
(***************************************************************************)
EncodeSettles(c, seqs) ==
  /\ UNCHANGED <<math, modelService, tokenizerService, app, textUtils>>
  /\ call[c].pc \in {"encode", "encodeRejected"}
  /\ UNCHANGED tokenizer
  /\ IF call[c].pc = "encodeRejected"
     THEN /\ AnalyzeTextFails(c, call[c], ErrTokenizerNotLoaded)
          /\ UNCHANGED <<received, lastEvent>>
     ELSE \E threw \in BOOLEAN, tokenIds \in seqs :
            IF threw
            THEN /\ tokenIds = <<>>
                 /\ AnalyzeTextFails(c, call[c], ErrTokenize)
                 /\ UNCHANGED <<received, lastEvent>>
            ELSE IF Len(tokenIds) = 0
            THEN /\ AnalyzeTextFails(c, [call[c] EXCEPT !.encoded = Some(tokenIds)],
                                     ErrNoTokens)
                 /\ UNCHANGED <<received, lastEvent>>
            ELSE LET limitedTokenIds == LimitedTokenIds(tokenIds, call[c].config)
                 IN  IF NotifyProgressThrows(progressCallbacks, Throwers)
                     THEN /\ notifyProgress(progressCallbacks,
                                            StartingEvent(Len(limitedTokenIds)),
                                            received, lastEvent)
                          /\ AnalyzeTextFails(c,
                               [call[c] EXCEPT !.encoded = Some(tokenIds)],
                               ErrSubscriber)
                     ELSE
                     /\ notifyProgress(progressCallbacks,
                                       StartingEvent(Len(limitedTokenIds)),
                                       received, lastEvent)
                     /\ call' = [call EXCEPT ![c] =
                          [@ EXCEPT !.text = <<>>,
                                    !.encoded = Some(tokenIds),
                                    !.tokenIds = limitedTokenIds,
                                    !.i = 0,
                                    !.results = NewResults(c),
                                    !.pc = ScanPc("analyzeText", limitedTokenIds, 0)]]
                     /\ UNCHANGED <<isAnalyzing, progressCallbacks>>

(***************************************************************************)
(* analyzeTokenSequence(tokenIds) is called directly (lines 149-159): a    *)
(* public method without a reentrancy check.  It runs up to the await of   *)
(* the first decodeToken, or returns [] for an empty sequence.             *)
(***************************************************************************)
AnalyzeTokenSequenceCall(c, seqs) ==
  /\ UNCHANGED <<math, modelService, tokenizerService, app, textUtils>>
  /\ call[c].pc = "idle"
  /\ \E tokenIds \in seqs :
       call' = [call EXCEPT ![c] =
         [NewCall("analyzeTokenSequence", <<>>, NoConfig, FALSE) EXCEPT
            !.tokenIds = tokenIds,
            !.results = NewResults(c),
            !.pc = ScanPc("analyzeTokenSequence", tokenIds, 0)]]
  /\ UNCHANGED <<isAnalyzing, progressCallbacks, tokenizer, received, lastEvent>>

(***************************************************************************)
\* where a call is left when the promise of its scan is rejected: analyzeText
\* awaits the scan (line 126), a direct caller gets the rejection
ScanRejectedPc(opName) == IF opName = "analyzeText" THEN "awaitScan" ELSE "failed"

(***************************************************************************)
(* The promise of decodeToken settles (lines 159-179 and 186-190).  For an *)
(* initial position the result is pushed, progress is notified and the     *)
(* scan yields; for a later position runInference is called with the       *)
(* context.  decodeToken throws when no tokenizer is set (line 469), which *)
(* is outside the try of the scan: the scan's promise is rejected.         *)
(***************************************************************************)
DecodeSettles(c) ==
  /\ UNCHANGED <<math, modelService, tokenizerService, app, textUtils>>
  /\ call[c].pc \in {"decode", "decodeRejected"}
  /\ UNCHANGED <<isAnalyzing, progressCallbacks, tokenizer>>
  /\ LET f == call[c]
         tokenId == f.tokenIds[f.i + 1]
         token == decodeToken(tokenId)
     IN  IF f.pc = "decodeRejected"
         THEN /\ call' = [call EXCEPT ![c] =
                   [@ EXCEPT !.error = ErrTokenizerNotLoaded,
                             !.pc = ScanRejectedPc(f.op)]]
              /\ UNCHANGED <<received, lastEvent>>
         ELSE IF f.i < InitialTokensCount(f.tokenIds)
         THEN /\ call' = [call EXCEPT ![c] =
                   [@ EXCEPT !.results = Append(@, InitialResult(f.i, tokenId, token)),
                             !.error = IF NotifyProgressThrows(progressCallbacks, Throwers)
                                       THEN ErrSubscriber ELSE @,
                             !.pc = IF NotifyProgressThrows(progressCallbacks, Throwers)
                                    THEN ScanRejectedPc(f.op) ELSE "yield"]]
              /\ notifyProgress(progressCallbacks,
                                PositionEvent(f.i, Len(f.tokenIds), token),
                                received, lastEvent)
         ELSE /\ call' = [call EXCEPT ![c] =
                   [@ EXCEPT !.inferenceLog =
                               Append(@, [position |-> f.i,
                                          context |-> ContextTokens(f.tokenIds, f.i),
                                          settled |-> FALSE,
                                          ok |-> FALSE,
                                          probabilities |-> <<>>]),
                             !.pc = "infer"]]
              /\ UNCHANGED <<received, lastEvent>>

(***************************************************************************)
(* The promise of modelService.runInference settles (lines 190-236): on    *)
(* success rank, probability and cumulative probability are computed and   *)
(* pushed; on failure the catch pushes the null result.  Either way        *)
(* progress is notified and the scan yields.                               *)
(***************************************************************************)
InferSettles(c) ==
  /\ UNCHANGED <<math, modelService, tokenizerService, app, textUtils>>
  /\ call[c].pc = "infer"
  /\ UNCHANGED <<isAnalyzing, progressCallbacks, tokenizer>>
  /\ LET f == call[c]
         targetTokenId == f.tokenIds[f.i + 1]
         token == decodeToken(targetTokenId)
         pending == f.inferenceLog[Len(f.inferenceLog)]
     IN  \E inferenceResult \in runInference(pending.context) :
           /\ call' = [call EXCEPT ![c] =
                [@ EXCEPT !.inferenceLog[Len(f.inferenceLog)] =
                            [pending EXCEPT !.settled = TRUE,
                                            !.ok = inferenceResult.ok,
                                            !.probabilities = inferenceResult.probabilities],
                          !.results = Append(@,
                            IF inferenceResult.ok
                            THEN PredictedResult(f.i, targetTokenId, token,
                                                 inferenceResult.probabilities)
                            ELSE FailedResult(f.i, targetTokenId, token)),
                          !.error = IF NotifyProgressThrows(progressCallbacks, Throwers)
                                    THEN ErrSubscriber ELSE @,
                          !.pc = IF NotifyProgressThrows(progressCallbacks, Throwers)
                                 THEN ScanRejectedPc(f.op) ELSE "yield"]]
           /\ notifyProgress(progressCallbacks,
                             PositionEvent(f.i, Len(f.tokenIds), token),
                             received, lastEvent)

(***************************************************************************)
(* yieldToMainThread's timer fires (lines 179 / 236, then the loop heads   *)
(* 157 / 183 and the return of line 239): the scan goes on with the next   *)
(* position, or returns its results.                                       *)
(***************************************************************************)
YieldSettles(c) ==
  /\ UNCHANGED <<math, modelService, tokenizerService, app, textUtils>>
  /\ call[c].pc = "yield"
  /\ call' = [call EXCEPT ![c] =
        [@ EXCEPT !.i = @ + 1,
                  !.pc = ScanPc(call[c].op, call[c].tokenIds, call[c].i + 1)]]
  /\ UNCHANGED <<isAnalyzing, progressCallbacks, tokenizer, received, lastEvent>>

(***************************************************************************)
(* analyzeText resumes from `await this.analyzeTokenSequence(...)` (lines  *)
(* 126-143): with the results it notifies 'Complete!' and returns them;    *)
(* with the scan's error it rethrows.  The finally block runs in both      *)
(* cases.                                                                  *)
(***************************************************************************)
ScanSettles(c) ==
  /\ UNCHANGED <<math, modelService, tokenizerService, app, textUtils>>
  /\ call[c].pc = "awaitScan"
  /\ UNCHANGED tokenizer
  /\ IF call[c].error = <<>>
     THEN /\ notifyProgress(progressCallbacks,
                            CompleteEvent(Len(call[c].tokenIds)),
                            received, lastEvent)
          /\ IF NotifyProgressThrows(progressCallbacks, Throwers)
             THEN AnalyzeTextFails(c, call[c], ErrSubscriber)
             ELSE /\ call' = [call EXCEPT ![c] = [@ EXCEPT !.pc = "returned"]]
                  /\ AnalyzeTextFinally
     ELSE /\ AnalyzeTextFails(c, call[c], call[c].error)
          /\ UNCHANGED <<received, lastEvent>>

(***************************************************************************)
(* TokenizerService.loadTokenizer completes a load (lines 376-418): every  *)
(* path of the fallback chain ends with this.tokenizer set.                *)
(***************************************************************************)
LoadTokenizer ==
  /\ UNCHANGED <<math, modelService, tokenizerService, app, textUtils>>
  /\ tokenizer = "null"
  /\ tokenizer' = "loaded"
  /\ UNCHANGED <<isAnalyzing, progressCallbacks, call, received, lastEvent>>

(***************************************************************************)
(* The caller's own `await` of the call resumes with the returned results  *)
(* or the thrown error (App.handleAnalyze, lines 78-102) and the caller is *)
(* free to make its next call; the callback it passed is dropped with it.  *)
(***************************************************************************)
AwaitResumes(c) ==
  /\ call[c].pc \in Settled
  /\ call' = [call EXCEPT ![c] = NewCall("none", <<>>, NoConfig, FALSE)]
  /\ received' = [received EXCEPT ![c] = EmptyBag]
  /\ lastEvent' = [lastEvent EXCEPT ![c] = Null]
  /\ UNCHANGED <<isAnalyzing, progressCallbacks, tokenizer>>

CallerResumes(c) ==
  /\ UNCHANGED <<math, modelService, tokenizerService, app, textUtils>>
  /\ AwaitResumes(c)

\* AnalysisEngine.isRunning
isRunning == isAnalyzing

(***************************************************************************)
(* mathUtils called on its own: the arguments are drawn when the caller is *)
(* set up (InitMath); a call returns what the function computes.  Neither  *)
(* function has a throw statement or an operation that throws on a typed   *)
(* array and a number, so `threw` stays FALSE.  Probabilities are in       *)
(* tenths.                                                                 *)
(***************************************************************************)
ProbValues == {0, 1, 3, 5}
MathDists == SeqsUpTo(ProbValues, MaxVocab)
MathTargets == -1..MaxVocab
MathRanks == -1..(MaxVocab + 1)

InitMath ==
  /\ modelService = NoModelService
  /\ tokenizerService = NoTokenizerService
  /\ app = NoApp
  /\ textUtils = NoTextUtils
  /\ isAnalyzing = FALSE
  /\ progressCallbacks = <<>>
  /\ tokenizer = "null"
  /\ call = [c \in Callers |-> NewCall("none", <<>>, NoConfig, FALSE)]
  /\ received = [c \in Callers |-> EmptyBag]
  /\ lastEvent = [c \in Callers |-> Null]
  /\ math \in [op : {"idle"}, d : MathDists, t : MathTargets, r : MathRanks,
               results : {<<>>}, out : {Null}, threw : {FALSE}]

CallCalculateTokenRank ==
  /\ math.op = "idle"
  /\ math' = [math EXCEPT !.op = "calculateTokenRank",
                          !.out = Some(calculateTokenRank(math.d, math.t))]
  /\ UNCHANGED <<isAnalyzing, progressCallbacks, tokenizer, call, received, lastEvent,
                 modelService, tokenizerService, app, textUtils>>

CallCalculateCumulativeProbability ==
  /\ math.op = "idle"
  /\ math' = [math EXCEPT !.op = "calculateCumulativeProbability",
                          !.out = Some(calculateCumulativeProbability(math.d, math.r))]
  /\ UNCHANGED <<isAnalyzing, progressCallbacks, tokenizer, call, received, lastEvent,
                 modelService, tokenizerService, app, textUtils>>

(***************************************************************************)
(* mathUtils.calculateTopKAccuracy / calculateStatistics and               *)
(* AnalysisEngine.calculateStatistics.  A quotient is kept as the exact    *)
(* fraction num/den; the standard deviation (a square root) is left out,   *)
(* the engine does not read it.                                            *)
(***************************************************************************)
Frac(num, den) == [num |-> num, den |-> den]

calculateTopKAccuracyInclusive(ranks, k) ==
  IF Len(ranks) = 0 THEN Frac(0, 1)
  ELSE Frac(Len(SelectSeq(ranks, LAMBDA rank : rank <= k)), Len(ranks))

calculateTopKAccuracy(ranks, k) ==
  IF Len(ranks) = 0 THEN Frac(0, 1)
  ELSE Frac(Len(SelectSeq(ranks, LAMBDA rank : rank < k)), Len(ranks))

\* [...values].sort((a, b) => a - b)
RECURSIVE InsertAscending(_, _)
InsertAscending(sorted, v) ==
  IF Len(sorted) = 0 THEN <<v>>
  ELSE IF v - sorted[1] < 0
       THEN <<v>> \o sorted
       ELSE <<sorted[1]>> \o InsertAscending(Tail(sorted), v)

RECURSIVE SortAscending(_)
SortAscending(values) ==
  IF Len(values) = 0 THEN <<>>
  ELSE InsertAscending(SortAscending(SubSeq(values, 1, Len(values) - 1)),
                       values[Len(values)])

\* values.reduce((sum, val) => sum + val, 0)
RECURSIVE SumValues(_)
SumValues(values) ==
  IF Len(values) = 0 THEN 0
  ELSE SumValues(SubSeq(values, 1, Len(values) - 1)) + values[Len(values)]

calculateStatisticsUnsorted(values) ==
  IF Len(values) = 0
  THEN [mean |-> Frac(0, 1), median |-> Frac(0, 1), min |-> 0, max |-> 0]
  ELSE LET n == Len(values)
       IN  [mean |-> Frac(SumValues(values), n),
            median |-> IF n % 2 = 0
                       THEN Frac(values[n \div 2] + values[n \div 2 + 1], 2)
                       ELSE Frac(values[n \div 2 + 1], 1),
            min |-> values[1],
            max |-> values[n]]

calculateStatistics(values) ==
  IF Len(values) = 0
  THEN [mean |-> Frac(0, 1), median |-> Frac(0, 1), min |-> 0, max |-> 0]
  ELSE LET sorted == SortAscending(values)
           n == Len(sorted)
       IN  [mean |-> Frac(SumValues(values), n),
            median |-> IF n % 2 = 0
                       THEN Frac(sorted[n \div 2] + sorted[n \div 2 + 1], 2)
                       ELSE Frac(sorted[n \div 2 + 1], 1),
            min |-> sorted[1],
            max |-> sorted[n]]

PredictedResultsTruthyRank(results) ==
  SelectSeq(results, LAMBDA r : ~r.isInitial /\ ~IsNull(r.rank) /\ r.rank # Some(0))

PredictedResultsIgnoringInitialFlag(results) ==
  SelectSeq(results, LAMBDA r : ~IsNull(r.rank))

\* AnalysisEngine.calculateStatistics, line 246
PredictedResults(results) ==
  SelectSeq(results, LAMBDA r : ~r.isInitial /\ ~IsNull(r.rank))

EngineCalculateStatistics(results) ==
  LET predictedResults == PredictedResults(results)
      ranks == [j \in 1..Len(predictedResults) |-> Val(predictedResults[j].rank)]
      withCumulative ==
        SelectSeq(predictedResults, LAMBDA r : ~IsNull(r.cumulativeProbability))
      cumulativeProbs ==
        [j \in 1..Len(withCumulative) |-> Val(withCumulative[j].cumulativeProbability)]
      rankStats == calculateStatistics(ranks)
      cumulativeProbStats == calculateStatistics(cumulativeProbs)
  IN  IF Len(predictedResults) = 0
      THEN [totalTokens |-> Len(results),
            predictedTokens |-> 0,
            top1Accuracy |-> Frac(0, 1),
            top5Accuracy |-> Frac(0, 1),
            top10Accuracy |-> Frac(0, 1),
            averageRank |-> Frac(0, 1),
            averageCumulativeProbability |-> Frac(0, 1),
            medianRank |-> Frac(0, 1),
            medianCumulativeProbability |-> Frac(0, 1)]
      ELSE [totalTokens |-> Len(results),
            predictedTokens |-> Len(predictedResults),
            top1Accuracy |-> calculateTopKAccuracy(ranks, 1),
            top5Accuracy |-> calculateTopKAccuracy(ranks, 5),
            top10Accuracy |-> calculateTopKAccuracy(ranks, 10),
            averageRank |-> rankStats.mean,
            averageCumulativeProbability |-> cumulativeProbStats.mean,
            medianRank |-> rankStats.median,
            medianCumulativeProbability |-> cumulativeProbStats.median]

(***************************************************************************)
(* calculateStatistics called on a result list: the lists hold results of  *)
(* the three kinds a scan creates (initial, failed, predicted with a rank  *)
(* on either side of 1, 5 and 10) and one that only the type allows (an    *)
(* initial result that carries a rank).                                    *)
(***************************************************************************)
StatRanks == {0, 4, 5, 10}
StatCumulatives == {0, 6}

ResultKinds ==
  {[isInitial |-> TRUE, rank |-> Null, cumulativeProbability |-> Null],
   [isInitial |-> FALSE, rank |-> Null, cumulativeProbability |-> Null],
   [isInitial |-> TRUE, rank |-> Some(0), cumulativeProbability |-> Some(0)]}
  \cup {[isInitial |-> FALSE, rank |-> Some(k), cumulativeProbability |-> Some(q)] :
          k \in StatRanks, q \in StatCumulatives}

AsResult(kind, j) ==
  [position |-> j - 1, token |-> decodeToken(0), tokenId |-> 0,
   rank |-> kind.rank,
   probability |-> IF IsNull(kind.rank) THEN Null ELSE Some(0),
   cumulativeProbability |-> kind.cumulativeProbability,
   isInitial |-> kind.isInitial]

StatsInputs ==
  {[j \in 1..Len(kinds) |-> AsResult(kinds[j], j)] :
     kinds \in SeqsUpTo(ResultKinds, MaxResults)}

InitStats ==
  /\ modelService = NoModelService
  /\ tokenizerService = NoTokenizerService
  /\ app = NoApp
  /\ textUtils = NoTextUtils
  /\ isAnalyzing = FALSE
  /\ progressCallbacks = <<>>
  /\ tokenizer = "null"
  /\ call = [c \in Callers |-> NewCall("none", <<>>, NoConfig, FALSE)]
  /\ received = [c \in Callers |-> EmptyBag]
  /\ lastEvent = [c \in Callers |-> Null]
  /\ math \in [op : {"idle"}, d : {<<>>}, t : {0}, r : {0},
               results : StatsInputs, out : {Null}, threw : {FALSE}]

CallCalculateStatistics ==
  /\ math.op = "idle"
  /\ math' = [math EXCEPT !.op = "calculateStatistics",
                          !.out = Some(EngineCalculateStatistics(math.results))]
  /\ UNCHANGED <<isAnalyzing, progressCallbacks, tokenizer, call, received, lastEvent,
                 modelService, tokenizerService, app, textUtils>>

(***************************************************************************)
(* ModelService.loadModel (lines 617-723) and dispose (lines 899-905).     *)
(* One call at a time is past the isLoading check; each action below is    *)
(* the continuation of that call after one of its awaits.  An awaited      *)
(* browser promise (Cache API, fetch, InferenceSession.create) may be      *)
(* fulfilled or rejected.  `cached` says whether the cache                 *)
(* 'model-cache-v1' holds a response under config.modelPath; fetches and   *)
(* downloads count the fetch() calls made and the downloads stored.        *)
(***************************************************************************)
Outcomes == {"fulfilled", "rejected"}

modelVars == <<isAnalyzing, progressCallbacks, tokenizer, call, received, lastEvent,
               math, tokenizerService, app, textUtils>>

\* line 647: cache.match(cacheKey) finds a response
cachedResponseIgnored(ms) == FALSE
cachedResponse(ms) == ms.cached

\* ModelService.notifyProgress, lines 959-967: every callback in
\* loadingCallbacks is invoked with the event (an exception it throws is
\* caught); of the stages only 'ready' and 'error' are counted
NotifyLoading(ms, stage) ==
  LET registered == {ms.loadingCallbacks[j] : j \in DOMAIN ms.loadingCallbacks}
  IN  [ms EXCEPT !.loads =
         [k \in DOMAIN ms.loads |->
            IF k \notin registered THEN ms.loads[k]
            ELSE IF stage = "ready" THEN [ms.loads[k] EXCEPT !.ready = @ + 1]
            ELSE [ms.loads[k] EXCEPT !.error = @ + 1]]]

NewLoad(onProgress, outcome) ==
  [onProgress |-> onProgress, outcome |-> outcome, ready |-> 0, error |-> 0]

Settle(ms, outcome) == [ms EXCEPT !.loads[ms.loader].outcome = outcome, !.loader = 0]

\* lines 709-722 without the finally: the flag and the callbacks are left as
\* they are
LoadModelFailsKeepsLoading(ms) ==
  [Settle(NotifyLoading(ms, "error"), "rejected") EXCEPT !.pc = "idle"]

\* lines 709-722: the catch notifies 'error' and rethrows, the finally resets
\* the flag and drops the callbacks
LoadModelFails(ms) ==
  [Settle(NotifyLoading(ms, "error"), "rejected") EXCEPT
     !.isLoading = FALSE, !.loadingCallbacks = <<>>, !.pc = "idle"]

\* lines 617-621: the model is already loaded: 'ready' is notified to the
\* callbacks in loadingCallbacks and the call returns; onProgress is not pushed
AlreadyLoaded(ms, k, onProgress) == NotifyLoading(ms, "ready")

\* lines 617-646: up to the await of caches.open / cache.match
LoadModelCall(callbacks) ==
  /\ modelService.observed
  /\ modelService.calls < MaxLoads
  /\ \E onProgress \in callbacks :
       LET k == modelService.calls + 1
           called == [modelService EXCEPT !.calls = k]
       IN  modelService' =
             IF modelService.session # "null"
             THEN AlreadyLoaded(
                    [called EXCEPT !.loads = Append(@, NewLoad(onProgress, "resolved"))],
                    k, onProgress)
             ELSE IF modelService.isLoading
             THEN [called EXCEPT
                     !.loads = Append(@, NewLoad(onProgress, "resolved")),
                     !.loadingCallbacks = IF onProgress THEN Append(@, k) ELSE @]
             ELSE [called EXCEPT
                     !.loads = Append(@, NewLoad(onProgress, "pending")),
                     !.loadingCallbacks = IF onProgress THEN Append(@, k) ELSE @,
                     !.loader = k, !.isLoading = TRUE, !.pc = "match"]
  /\ UNCHANGED modelVars

\* lines 646-657: the cache lookup settles; a hit reads the cached response,
\* a miss calls fetch(config.modelPath)
CacheMatchSettles ==
  /\ modelService.pc = "match"
  /\ \E outcome \in Outcomes :
       modelService' =
         IF outcome = "rejected" THEN LoadModelFails(modelService)
         ELSE IF cachedResponse(modelService)
         THEN [modelService EXCEPT !.pc = "read"]
         ELSE [modelService EXCEPT !.pc = "fetch", !.fetches = @ + 1]
  /\ UNCHANGED modelVars

\* lines 651-652: cachedResponse.arrayBuffer() settles
CacheReadSettles ==
  /\ modelService.pc = "read"
  /\ \E outcome \in Outcomes :
       modelService' =
         IF outcome = "rejected" THEN LoadModelFails(modelService)
         ELSE [modelService EXCEPT !.pc = "create"]
  /\ UNCHANGED modelVars

\* lines 656-686: the download settles: a response that is not ok, or a read
\* of the body that rejects, ends the load; a complete body is handed to
\* cache.put
FetchSettles ==
  /\ modelService.pc = "fetch"
  /\ \E outcome \in Outcomes :
       modelService' =
         IF outcome = "rejected" THEN LoadModelFails(modelService)
         ELSE [modelService EXCEPT !.pc = "put"]
  /\ UNCHANGED modelVars

\* lines 686-687: cache.put(cacheKey, cacheResponse) settles
CachePutSettles ==
  /\ modelService.pc = "put"
  /\ \E outcome \in Outcomes :
       modelService' =
         IF outcome = "rejected" THEN LoadModelFails(modelService)
         ELSE [modelService EXCEPT !.pc = "create", !.cached = TRUE,
                                   !.downloads = @ + 1]
  /\ UNCHANGED modelVars

\* lines 699-723: InferenceSession.create settles; on success the session is
\* kept, validateModel runs and the finally resets the flag
SessionCreateSettles ==
  /\ modelService.pc = "create"
  /\ \E outcome \in Outcomes :
       modelService' =
         IF outcome = "rejected" THEN LoadModelFails(modelService)
         ELSE [Settle(NotifyLoading([modelService EXCEPT !.session = "set"], "ready"),
                      "resolved")
                 EXCEPT !.isLoading = FALSE, !.loadingCallbacks = <<>>, !.pc = "idle"]
  /\ UNCHANGED modelVars

\* ModelService.dispose, lines 899-905
Dispose ==
  /\ modelService.observed
  /\ modelService.session # "null"
  /\ modelService' = [modelService EXCEPT !.session = "null"]
  /\ UNCHANGED modelVars

\* runInference called on its own (lines 728-875), once: the input and what
\* the call settled with are kept in modelService.run
InferenceInputs == {s \in SampleSeqs : Len(s) <= ShortSequenceLength + 1}

CallRunInference ==
  /\ modelService.observed
  /\ IsNull(modelService.run)
  /\ \E inputIds \in InferenceInputs :
       \E o \in RunInferenceOutcomes(modelService.session,
                                      modelService.maxSequenceLength, inputIds) :
         modelService' =
           [modelService EXCEPT !.run = Some([inputIds |-> inputIds,
                                               session |-> modelService.session,
                                               outcome |-> o])]
  /\ UNCHANGED modelVars

(***************************************************************************)
(* TokenizerService.loadTokenizer, lines 376-418, step by step.  `tried`   *)
(* lists the sources the load has asked, with the outcome of each.         *)
(***************************************************************************)
tokenizerVars == <<isAnalyzing, progressCallbacks, call, received, lastEvent,
                   math, modelService, app, textUtils>>

\* line 377: if (this.tokenizer) return
TokenizerNeverSet == FALSE
TokenizerSet == tokenizer # "null"

Attempt(source, outcome) == [source |-> source, outcome |-> outcome]

\* lines 376-393: up to the await of from_pretrained on the local files
LoadTokenizerCall ==
  /\ tokenizerService.calls < MaxLoads
  /\ tokenizerService' =
       IF TokenizerSet \/ tokenizerService.isLoading
       THEN [tokenizerService EXCEPT !.calls = @ + 1]
       ELSE [tokenizerService EXCEPT !.calls = @ + 1, !.isLoading = TRUE,
                                     !.pc = "local", !.tried = <<>>]
  /\ UNCHANGED <<tokenizer, tokenizerVars>>

\* lines 391-407: the local load settles; its result is kept, or the catch
\* asks HuggingFace
LocalLoadSettles ==
  /\ tokenizerService.pc = "local"
  /\ \E outcome \in Outcomes :
       IF outcome = "fulfilled"
       THEN /\ tokenizer' = "local"
            /\ tokenizerService' =
                 [tokenizerService EXCEPT
                    !.tried = Append(@, Attempt("local", outcome)),
                    !.isLoading = FALSE, !.pc = "idle"]
       ELSE /\ tokenizer' = tokenizer
            /\ tokenizerService' =
                 [tokenizerService EXCEPT
                    !.tried = Append(@, Attempt("local", outcome)),
                    !.pc = "huggingface"]
  /\ UNCHANGED tokenizerVars

\* lines 407-417: the HuggingFace load settles; its result is kept, or the
\* inner catch constructs the SimpleTokenizer
HuggingFaceLoadSettles ==
  /\ tokenizerService.pc = "huggingface"
  /\ \E outcome \in Outcomes :
       /\ tokenizer' = IF outcome = "fulfilled" THEN "huggingface" ELSE "simple"
       /\ tokenizerService' =
            [tokenizerService EXCEPT
               !.tried = IF outcome = "fulfilled"
                         THEN Append(@, Attempt("huggingface", outcome))
                         ELSE @ \o <<Attempt("huggingface", outcome),
                                      Attempt("simple", "fulfilled")>>,
               !.isLoading = FALSE, !.pc = "idle"]
  /\ UNCHANGED tokenizerVars

\* The two singletons after construction, the browser cache with or without
\* an entry left by an earlier visit.
InitServices ==
  /\ isAnalyzing = FALSE
  /\ progressCallbacks = <<>>
  /\ tokenizer = "null"
  /\ call = [c \in Callers |-> NewCall("none", <<>>, NoConfig, FALSE)]
  /\ received = [c \in Callers |-> EmptyBag]
  /\ lastEvent = [c \in Callers |-> Null]
  /\ math = NoMath
  /\ tokenizerService = NoTokenizerService
  /\ app = NoApp
  /\ textUtils = NoTextUtils
  /\ \E entry \in BOOLEAN :
       modelService = [NoModelService EXCEPT !.observed = TRUE, !.cached = entry]

\* A ModelService constructed with a short maxSequenceLength (lines 604-612)
\* next to the analysis engine; the model is in the browser cache.
InitInference ==
  /\ isAnalyzing = FALSE
  /\ progressCallbacks = <<>>
  /\ tokenizer = "null"
  /\ call = [c \in Callers |-> NewCall("none", <<>>, NoConfig, FALSE)]
  /\ received = [c \in Callers |-> EmptyBag]
  /\ lastEvent = [c \in Callers |-> Null]
  /\ math = NoMath
  /\ tokenizerService = NoTokenizerService
  /\ app = NoApp
  /\ textUtils = NoTextUtils
  /\ modelService = [NoModelService EXCEPT !.observed = TRUE, !.cached = TRUE,
                                           !.maxSequenceLength = ShortSequenceLength]

(***************************************************************************)
(* App.handleAnalyze after its await (part_000 lines 87-88): the list that *)
(* the call resolved with is handed to calculateStatistics.                *)
(***************************************************************************)
AppCalculatesStatistics(c) ==
  /\ call[c].pc = "returned"
  /\ math.op = "none"
  /\ math' = [NoMath EXCEPT
                !.op = "calculateStatistics",
                !.results = call[c].results,
                !.out = Some(EngineCalculateStatistics(call[c].results))]
  /\ UNCHANGED <<isAnalyzing, progressCallbacks, tokenizer, call, received, lastEvent,
                 modelService, tokenizerService, app, textUtils>>

(***************************************************************************)
(* App.handleAnalyze (part_000 lines 64-103).  Its only guard is           *)
(* modelLoaded and a text that is not blank; the config is                 *)
(* { maxLength: 200 } and the progress callback only stores the event.     *)
(* HandleAnalyzeCall is the handler up to its await: the four state        *)
(* resets and the call of analysisEngine.analyzeText, which runs up to its *)
(* own first await (or rejects at once).  HandleAnalyzeResumes is the      *)
(* continuation of the await: results on fulfilment, the error message on  *)
(* rejection, and the finally block.                                       *)
(***************************************************************************)
HandleAnalyzeConfig == [maxLength |-> Some(200), initialTokensCount |-> Null]

HandleAnalyzeTexts == {txt \in SampleTexts : Trim(txt) # <<>>}

HandleAnalyzeCall(c) ==
  /\ app.modelLoaded
  /\ app' = [app EXCEPT !.isAnalyzing = TRUE, !.analysisError = Null,
                        !.analysisResults = <<>>]
  /\ AnalyzeTextEnters(c, HandleAnalyzeTexts, {HandleAnalyzeConfig}, {TRUE}, {FALSE})
  /\ UNCHANGED <<math, modelService, tokenizerService, textUtils>>

HandleAnalyzeResumes(c) ==
  /\ AwaitResumes(c)
  /\ app' = IF call[c].pc = "returned"
            THEN [app EXCEPT !.analysisResults = call[c].results,
                             !.isAnalyzing = FALSE]
            ELSE [app EXCEPT !.analysisError = Some(call[c].error),
                             !.isAnalyzing = FALSE]
  /\ UNCHANGED <<math, modelService, tokenizerService, textUtils>>

(***************************************************************************)
(* One call of chunkText or of wordWrap on a text and a limit within the   *)
(* bounds.                                                                 *)
(***************************************************************************)
ChunkTexts == SeqsUpTo(Chars, MaxChunkTextLen)
Widths == 1..MaxWidth

InitText ==
  /\ modelService = NoModelService
  /\ tokenizerService = NoTokenizerService
  /\ app = NoApp
  /\ textUtils \in [op : {"none"}, text : ChunkTexts, width : Widths, out : {Null}]
  /\ isAnalyzing = FALSE
  /\ progressCallbacks = <<>>
  /\ tokenizer = "null"
  /\ call = [c \in Callers |-> NewCall("none", <<>>, NoConfig, FALSE)]
  /\ received = [c \in Callers |-> EmptyBag]
  /\ lastEvent = [c \in Callers |-> Null]
  /\ math = NoMath

CallChunkText ==
  /\ textUtils.op = "none"
  /\ textUtils' = [textUtils EXCEPT
                     !.op = "chunkText",
                     !.out = Some(chunkText(textUtils.text, textUtils.width))]
  /\ UNCHANGED <<isAnalyzing, progressCallbacks, tokenizer, call, received, lastEvent,
                 math, modelService, tokenizerService, app>>

CallWordWrap ==
  /\ textUtils.op = "none"
  /\ textUtils' = [textUtils EXCEPT
                     !.op = "wordWrap",
                     !.out = Some(wordWrap(textUtils.text, textUtils.width))]
  /\ UNCHANGED <<isAnalyzing, progressCallbacks, tokenizer, call, received, lastEvent,
                 math, modelService, tokenizerService, app>>

\* The App after initializeServices (part_000 lines 38-62) has succeeded: the
\* tokenizer is loaded and the 'ready' event has set modelLoaded.
InitUI ==
  /\ modelService = NoModelService
  /\ tokenizerService = NoTokenizerService
  /\ app = [NoApp EXCEPT !.modelLoaded = TRUE]
  /\ textUtils = NoTextUtils
  /\ isAnalyzing = FALSE
  /\ progressCallbacks = <<>>
  /\ tokenizer = "loaded"
  /\ call = [c \in Callers |-> NewCall("none", <<>>, NoConfig, FALSE)]
  /\ received = [c \in Callers |-> EmptyBag]
  /\ lastEvent = [c \in Callers |-> Null]
  /\ math = NoMath

(***************************************************************************)
(* Specifications.                                                         *)
(*   Spec     : one caller that makes one call after another, with every   *)
(*              text, config and token sequence within the bounds.         *)
(*   SpecConc : two callers, one call each, whose calls overlap (or follow  *)
(*              one another) in every way the event loop allows, on the    *)
(*              sample inputs.                                             *)
(*   SpecMath : one call of calculateTokenRank or                          *)
(*              calculateCumulativeProbability on arguments within the     *)
(*              bounds.                                                    *)
(*   SpecStats : one call of AnalysisEngine.calculateStatistics on a       *)
(*              result list within the bounds.                             *)
(*   SpecApp : one call of caller "A" whose returned list is handed to     *)
(*             calculateStatistics.                                        *)
(*   SpecServices : loadModel, dispose and loadTokenizer calls on the two  *)
(*             service singletons, step by step.                           *)
(*   SpecInference : one call of caller "A" next to a ModelService with a  *)
(*             short maxSequenceLength that is loaded from the cache,      *)
(*             disposed of, and called directly.                           *)
(*   SpecUI : handleAnalyze invocations of the mounted App, overlapping or *)
(*             following one another, on the sample inputs.                *)
(*   SpecText : one call of chunkText or wordWrap on arguments within the  *)
(*             bounds.                                                     *)
(*   SpecLong : one call of caller "A" over the long token sequence.       *)
(*   FairSpec / FairSpecConc : the same, where every awaited promise       *)
(*              (tokenizer, Predictor, timer) eventually settles.          *)
(***************************************************************************)
Resume(c, seqs) ==
  \/ EncodeSettles(c, seqs)
  \/ DecodeSettles(c)
  \/ InferSettles(c)
  \/ YieldSettles(c)
  \/ ScanSettles(c)

Step(c, seqs, texts, configs, throwing) ==
  \/ AnalyzeTextCall(c, texts, configs, throwing)
  \/ AnalyzeTokenSequenceCall(c, seqs)
  \/ Resume(c, seqs)

Next ==
  \/ LoadTokenizer
  \/ Step("A", TokenSeqs, Texts, Configs, CallbackThrows)
  \/ CallerResumes("A")

NextConc ==
  \/ LoadTokenizer
  \/ \E c \in Callers :
       Step(c, SampleSeqs, SampleTexts, SampleConfigs, SampleCallbackThrows)

NextMath ==
  \/ CallCalculateTokenRank
  \/ CallCalculateCumulativeProbability

Spec == Init /\ [][Next]_vars

SpecMath == InitMath /\ [][NextMath]_vars

SpecStats == InitStats /\ [][CallCalculateStatistics]_vars

NextApp ==
  \/ LoadTokenizer
  \/ Step("A", TokenSeqs, Texts, Configs, CallbackThrows)
  \/ AppCalculatesStatistics("A")

SpecApp == Init /\ [][NextApp]_vars

NextLong ==
  \/ LoadTokenizer
  \/ Step("A", LongSeqs, SampleTexts, SampleConfigs, SampleCallbackThrows)

SpecLong == Init /\ [][NextLong]_vars

NextUI ==
  \E c \in Callers :
    \/ HandleAnalyzeCall(c)
    \/ Resume(c, SampleSeqs)
    \/ HandleAnalyzeResumes(c)

SpecUI == InitUI /\ [][NextUI]_vars

NextText ==
  \/ CallChunkText
  \/ CallWordWrap

SpecText == InitText /\ [][NextText]_vars

NextModel ==
  \/ LoadModelCall(BOOLEAN)
  \/ CacheMatchSettles
  \/ CacheReadSettles
  \/ FetchSettles
  \/ CachePutSettles
  \/ SessionCreateSettles
  \/ Dispose

NextTokenizer ==
  \/ LoadTokenizerCall
  \/ LocalLoadSettles
  \/ HuggingFaceLoadSettles

NextServices == NextModel \/ NextTokenizer

SpecServices == InitServices /\ [][NextServices]_vars

NextInference ==
  \/ LoadTokenizer
  \/ Step("A", SampleSeqs, SampleTexts, SampleConfigs, SampleCallbackThrows)
  \/ LoadModelCall({FALSE})
  \/ CacheMatchSettles
  \/ CacheReadSettles
  \/ SessionCreateSettles
  \/ Dispose
  \/ CallRunInference

SpecInference == InitInference /\ [][NextInference]_vars

SpecConc == Init /\ [][NextConc]_vars

FairSpec == Spec /\ WF_vars(Resume("A", TokenSeqs))

FairSpecConc == SpecConc /\ \A c \in Callers : WF_vars(Resume(c, SampleSeqs))

(***************************************************************************)
(* What the properties below speak of.                                     *)
(***************************************************************************)
\* the scan of caller c has returned its result list
ScanCompleted(c) ==
  /\ call[c].op # "none"
  /\ \/ call[c].pc = "returned"
     \/ call[c].pc = "awaitScan" /\ call[c].error = <<>>

\* the runInference call of caller c's scan for position pos failed / succeeded
PredictorFailedAt(c, pos) ==
  \E k \in DOMAIN call[c].inferenceLog :
    LET e == call[c].inferenceLog[k] IN e.position = pos /\ e.settled /\ ~e.ok
PredictorSucceededAt(c, pos) ==
  \E k \in DOMAIN call[c].inferenceLog :
    LET e == call[c].inferenceLog[k] IN e.position = pos /\ e.settled /\ e.ok

\* the ids a distribution d covers
Ids(d) == 0..(Len(d) - 1)

AllNull(r) ==
  IsNull(r.rank) /\ IsNull(r.probability) /\ IsNull(r.cumulativeProbability)
NoneNull(r) ==
  ~IsNull(r.rank) /\ ~IsNull(r.probability) /\ ~IsNull(r.cumulativeProbability)

(***************************************************************************)
(* C1.  A failed Predictor call for a non-initial position i leaves a      *)
(* result for position i with isInitial = false and rank, probability and  *)
(* cumulativeProbability null; the scan goes on with position i + 1 (the   *)
(* next Predictor call is the one for i + 1, and a completed scan has a    *)
(* result for every position); the call never fails once the Predictor has *)
(* been called; and the result of every position whose Predictor call      *)
(* succeeded is what its own distribution gives, whatever failed elsewhere.*)
(***************************************************************************)
C1_FailedPredictionRecovered ==
  \A c \in Callers :
    LET f == call[c]
        log == f.inferenceLog
    IN  /\ \A k \in DOMAIN log :
             (log[k].settled /\ ~log[k].ok) =>
               /\ log[k].position + 1 \in DOMAIN f.results
               /\ LET r == f.results[log[k].position + 1]
                  IN  r.position = log[k].position /\ r.isInitial = FALSE /\ AllNull(r)
               /\ f.pc # "failed"
               /\ f.error = <<>>
               /\ k < Len(log) => log[k + 1].position = log[k].position + 1
               /\ ScanCompleted(c) => Len(f.results) = Len(f.tokenIds)
        /\ \A k \in DOMAIN log :
             (log[k].settled /\ log[k].ok) =>
               /\ log[k].position + 1 \in DOMAIN f.results
               /\ LET r == f.results[log[k].position + 1]
                      d == log[k].probabilities
                      target == f.tokenIds[log[k].position + 1]
                  IN  /\ r.isInitial = FALSE
                      /\ r.rank = Some(calculateTokenRank(d, target))
                      /\ r.probability =
                           Some(IF target \in Ids(d) THEN d[target + 1] ELSE 0)
                      /\ r.cumulativeProbability =
                           Some(calculateCumulativeProbability(d, Val(r.rank)))

\* a five-token scan returned after the Predictor failed for position 3 and
\* succeeded for position 4
C1_Witness ==
  \E c \in Callers :
    /\ call[c].pc = "returned"
    /\ Len(call[c].tokenIds) = 5
    /\ PredictorFailedAt(c, 3)
    /\ PredictorSucceededAt(c, 4)

(***************************************************************************)
(* C2.  A completed scan over n tokens holds exactly n results, and at     *)
(* every moment the k-th result built so far has position k (from 0) and   *)
(* the token id of the sequence at k, whatever the Predictor did.          *)
(***************************************************************************)
C2_OneResultPerPosition ==
  \A c \in Callers :
    LET f == call[c]
    IN  /\ ScanCompleted(c) => Len(f.results) = Len(f.tokenIds)
        /\ Len(f.results) <= Len(f.tokenIds)
        /\ \A j \in DOMAIN f.results :
             /\ f.results[j].position = j - 1
             /\ f.results[j].tokenId = f.tokenIds[j]

\* a direct scan of five tokens returned with one failed and one successful
\* prediction
C2_Witness ==
  \E c \in Callers :
    /\ call[c].op = "analyzeTokenSequence"
    /\ call[c].pc = "returned"
    /\ Len(call[c].results) = 5
    /\ PredictorSucceededAt(c, 3)
    /\ PredictorFailedAt(c, 4)

(***************************************************************************)
(* C3 as stated: isInitial is true exactly for the positions below         *)
(* min(initialTokensCount, n), where initialTokensCount is the prefix size *)
(* the caller configured (3 when it configured none).                      *)
(***************************************************************************)
RequestedInitialTokens(cfg) ==
  IF IsNull(cfg.initialTokensCount)
  THEN INITIAL_TOKENS_COUNT ELSE Val(cfg.initialTokensCount)

C4_RankNullIffInitialOrFailed ==
  \A c \in Callers :
    LET f == call[c]
    IN  /\ \A j \in DOMAIN f.results :
             IsNull(f.results[j].rank) <=>
               \/ j - 1 < Min(INITIAL_TOKENS_COUNT, Len(f.tokenIds))
               \/ PredictorFailedAt(c, j - 1)
        /\ \A pos \in 0..(Len(f.tokenIds) - 1) :
             PredictorSucceededAt(c, pos) =>
               /\ pos + 1 \in DOMAIN f.results
               /\ ~IsNull(f.results[pos + 1].rank)

\* a scan in which the target was the most likely token (rank 0) at one
\* position and the Predictor failed at another
C4_Witness ==
  \E c \in Callers :
    /\ \E j \in DOMAIN call[c].results : call[c].results[j].rank = Some(0)
    /\ \E pos \in 0..4 : PredictorFailedAt(c, pos)

(***************************************************************************)
(* C5.  In every result the analyzer creates, rank, probability and        *)
(* cumulativeProbability are all three null or all three non-null.         *)
(***************************************************************************)
C5_PredictionFieldsNullTogether ==
  \A c \in Callers :
    \A j \in DOMAIN call[c].results :
      AllNull(call[c].results[j]) \/ NoneNull(call[c].results[j])

\* results of all three kinds side by side: initial, failed, predicted
C5_Witness ==
  \E c \in Callers :
    /\ Len(call[c].results) = 5
    /\ call[c].results[3].isInitial /\ AllNull(call[c].results[3])
    /\ ~call[c].results[4].isInitial /\ AllNull(call[c].results[4])
    /\ NoneNull(call[c].results[5])

(***************************************************************************)
(* C6.  An analyzeText call made while an earlier analyzeText call is in   *)
(* flight fails at once with 'Analysis already in progress' and processes  *)
(* no token; the first run is unaffected: the rejecting step changes       *)
(* neither the first call's frame nor isAnalyzing, progressCallbacks or    *)
(* what any subscriber received, a rejected call never acts again, the     *)
(* flag stays set and the first run's subscriber stays the registered one  *)
(* while that run is in flight, and the first run returns with exactly the *)
(* events of its own run delivered to its subscriber.                      *)
(***************************************************************************)
AnalyzeTextInFlight(d) ==
  call[d].op = "analyzeText" /\ call[d].pc \notin (Settled \cup {"idle"})

\* the events one analyzeText run that returned owes its subscriber
EventsOfRun(d) ==
  LET n == Len(call[d].tokenIds)
  IN  {TokenizingEvent, StartingEvent(n), CompleteEvent(n)} \cup
      {PositionEvent(j - 1, n, call[d].results[j].token) : j \in DOMAIN call[d].results}

C6_RejectingStep ==
  \A c, d \in Callers :
    (c # d /\ AnalyzeTextInFlight(d)
       /\ call[c].pc = "idle" /\ call'[c].op = "analyzeText") =>
      /\ call'[c].pc = "rejected"
      /\ call'[c].error = ErrInProgress
      /\ call'[c].results = <<>>
      /\ call'[c].inferenceLog = <<>>
      /\ IsNull(call'[c].encoded)
      /\ call'[d] = call[d]
      /\ isAnalyzing' /\ isAnalyzing
      /\ UNCHANGED <<progressCallbacks, received, lastEvent>>

C6_RejectedIsInert ==
  \A c \in Callers : call[c].pc = "rejected" => call'[c] = call[c]

C6_FirstRunIntact ==
  \A d \in Callers :
    /\ AnalyzeTextInFlight(d) =>
         /\ isAnalyzing
         /\ progressCallbacks = (IF call[d].onProgress THEN <<d>> ELSE <<>>)
    /\ \A c \in Callers \ {d} :
         (call[c].pc = "rejected" /\ call[d].op = "analyzeText"
            /\ call[d].pc = "returned") =>
           /\ Len(call[d].results) = Len(call[d].tokenIds)
           /\ received[d] = (IF call[d].onProgress
                             THEN SetToBag(EventsOfRun(d)) ELSE EmptyBag)

C6_ConcurrentAnalyzeTextRejected ==
  /\ []C6_FirstRunIntact
  /\ [][C6_RejectingStep /\ C6_RejectedIsInert]_vars

\* one caller was rejected, and the run that was in flight then returned its
\* five results to a caller that had subscribed
C6_Witness ==
  \E c, d \in Callers :
    /\ call[c].pc = "rejected"
    /\ call[d].op = "analyzeText"
    /\ call[d].pc = "returned"
    /\ call[d].onProgress
    /\ Len(call[d].results) = 5

(***************************************************************************)
(* C7.  Under every interleaving of calls of analyzeText and               *)
(* analyzeTokenSequence on the one analyzer, at most one token scan is     *)
(* running and at most one Predictor call is outstanding at any moment.    *)
(***************************************************************************)
C7_AtMostOneScan ==
  /\ Cardinality({c \in Callers : call[c].pc \in Scanning}) <= 1
  /\ Cardinality({c \in Callers : call[c].pc = "infer"}) <= 1

(***************************************************************************)
(* C8.  Every accepted analyzeText call eventually settles (returns or     *)
(* fails), given that every awaited tokenizer, Predictor and timer promise *)
(* settles; the step that settles it, on the success path and on every     *)
(* failure path, leaves isRunning() false and no callback registered; and  *)
(* an analyzeText call made while isRunning() is false is accepted, not    *)
(* rejected as concurrent.                                                 *)
(***************************************************************************)
C8_SettlingStep ==
  \A c \in Callers :
    (call'[c].op = "analyzeText" /\ call[c].pc \notin {"returned", "failed"}
       /\ call'[c].pc \in {"returned", "failed"}) =>
      /\ ~isRunning'
      /\ progressCallbacks' = <<>>

C8_NextCallAccepted ==
  \A c \in Callers :
    (call[c].pc = "idle" /\ call'[c].op = "analyzeText" /\ ~isRunning) =>
      call'[c].pc # "rejected"

C8_AcceptedCallSettlesIdle ==
  /\ \A c \in Callers :
       AnalyzeTextInFlight(c) ~>
         (call[c].op = "analyzeText" /\ call[c].pc \in {"returned", "failed"})
  /\ [][C8_SettlingStep /\ C8_NextCallAccepted]_vars

\* one analyzeText call failed and the other caller's analyzeText call, not
\* overlapping it, was accepted and returned
C8_Witness ==
  \E c, d \in Callers :
    /\ call[c].op = "analyzeText" /\ call[c].pc = "failed"
    /\ call[d].op = "analyzeText" /\ call[d].pc = "returned"
    /\ ~isRunning

(***************************************************************************)
(* C9.  An accepted analyzeText call whose text is empty after             *)
(* preprocessing (it holds nothing but whitespace) fails with 'Text is     *)
(* empty after preprocessing', and one whose tokenization yields zero      *)
(* tokens fails with 'No tokens generated from text'; in both cases no     *)
(* Predictor call was made, no AnalysisResult was created and no           *)
(* per-position progress event was emitted.                                *)
(***************************************************************************)
IsBlank(text) == \A k \in DOMAIN text : text[k] \in Whitespace

NoTokenProcessed(c) ==
  /\ call[c].results = <<>>
  /\ call[c].inferenceLog = <<>>
  /\ \A e \in BagToSet(received[c]) : e = TokenizingEvent

C9_BlankTextStep ==
  \A c \in Callers :
    (call[c].pc = "idle" /\ call'[c].op = "analyzeText" /\ ~isAnalyzing
       /\ IsBlank(call'[c].text)) =>
      /\ call'[c].pc = "failed"
      /\ call'[c].error = AnalysisFailed(ErrEmptyText)
      /\ received' = received

C9_FailsBeforeAnyToken ==
  \A c \in Callers :
    /\ call[c].encoded = Some(<<>>) =>
         /\ call[c].pc = "failed"
         /\ call[c].error = AnalysisFailed(ErrNoTokens)
    /\ (call[c].pc = "failed"
          /\ call[c].error \in {AnalysisFailed(ErrEmptyText), AnalysisFailed(ErrNoTokens)}) =>
         NoTokenProcessed(c)

C9_EmptyInputFails ==
  /\ []C9_FailsBeforeAnyToken
  /\ [][C9_BlankTextStep]_vars

\* a call with a subscriber failed because the tokenizer returned no token
C9_Witness ==
  \E c \in Callers :
    /\ call[c].pc = "failed"
    /\ call[c].encoded = Some(<<>>)
    /\ call[c].onProgress
    /\ received[c] # EmptyBag

(***************************************************************************)
(* C10.  Within one scan the k-th Predictor call is the one for position   *)
(* prefix + k - 1 (so: once per non-initial position, never for an initial *)
(* one, in increasing order, no retry), its context is exactly the first   *)
(* `position` tokens of the sequence, whatever earlier calls did, and a    *)
(* completed scan has made n - prefix calls.                               *)
(***************************************************************************)
C10_OnePredictorCallPerPosition ==
  \A c \in Callers :
    LET f == call[c]
        log == f.inferenceLog
        n == Len(f.tokenIds)
        prefix == Min(INITIAL_TOKENS_COUNT, n)
    IN  /\ \A k \in DOMAIN log :
             /\ log[k].position = prefix + k - 1
             /\ log[k].position < n
             /\ log[k].context = SubSeq(f.tokenIds, 1, log[k].position)
             /\ Len(log[k].context) = log[k].position
             /\ k < Len(log) => log[k].settled
        /\ Len(log) <= n - prefix
        /\ ScanCompleted(c) => Len(log) = n - prefix

\* a scan of five tokens returned after its first Predictor call failed; the
\* second call still got the four-token context
C10_Witness ==
  \E c \in Callers :
    /\ call[c].pc = "returned"
    /\ Len(call[c].inferenceLog) = 2
    /\ ~call[c].inferenceLog[1].ok
    /\ call[c].inferenceLog[2].context = SubSeq(call[c].tokenIds, 1, 4)
    /\ call[c].inferenceLog[2].ok

(***************************************************************************)
(* C11.  During an analyzeText run over n tokens the run's subscriber has  *)
(* received, for every position i whose result is appended, exactly one    *)
(* per-position event with current = i + 1, total = n and percentage       *)
(* (i + 1) / n * 100, none for a position not yet processed, and while the *)
(* scan yields after position i that event is the latest one delivered.    *)
(***************************************************************************)
IsPositionEvent(e) ==
  e.currentToken \notin {TokenizingEvent.currentToken,
                         StartingEvent(0).currentToken,
                         CompleteEvent(0).currentToken}

\* how many per-position events for position i of an n-token run s received
DeliveredFor(s, i, n) ==
  LET matching == {e \in BagToSet(received[s]) :
                     /\ IsPositionEvent(e)
                     /\ e.current = i + 1
                     /\ e.total = n}
  IN  BagCardinality([e \in matching |-> CopiesIn(e, received[s])])

C11_OneEventPerPosition ==
  \A d \in Callers :
    (call[d].op = "analyzeText" /\ call[d].onProgress
       /\ call[d].pc \in Scanning \cup {"awaitScan", "returned"}) =>
      LET f == call[d]
          n == Len(f.tokenIds)
      IN  /\ \A i \in 0..(n - 1) :
               /\ DeliveredFor(d, i, n) = (IF i < Len(f.results) THEN 1 ELSE 0)
               /\ i < Len(f.results) =>
                    PositionEvent(i, n, f.results[i + 1].token) \in BagToSet(received[d])
          /\ f.pc = "yield" =>
               lastEvent[d] = Some(PositionEvent(f.i, n, f.results[f.i + 1].token))

(***************************************************************************)
(* C12.  A progress subscriber that throws on every invocation changes     *)
(* nothing but itself: the call never fails with the subscriber's          *)
(* exception, the subscriber goes on being invoked with every later event  *)
(* of the run, the scan goes on position by position, and the results are  *)
(* what the token ids and the Predictor's answers alone determine (the     *)
(* same as with a subscriber that does not throw).  No event is delivered  *)
(* to one registered subscriber and withheld from another.                 *)
(***************************************************************************)
\* the result for the j-th token that the sequence and the Predictor's
\* answers determine
ResultFromAnswers(f, j) ==
  LET prefix == Min(INITIAL_TOKENS_COUNT, Len(f.tokenIds))
      tokenId == f.tokenIds[j]
  IN  IF j <= prefix
      THEN InitialResult(j - 1, tokenId, decodeToken(tokenId))
      ELSE LET answer == f.inferenceLog[j - prefix]
           IN  IF answer.ok
               THEN PredictedResult(j - 1, tokenId, decodeToken(tokenId),
                                    answer.probabilities)
               ELSE FailedResult(j - 1, tokenId, decodeToken(tokenId))

ResultsFromAnswers(f) == [j \in 1..Len(f.results) |-> ResultFromAnswers(f, j)]

C12_ThrowingSubscriberState ==
  \A d \in Callers :
    (call[d].op = "analyzeText" /\ call[d].throws) =>
      LET f == call[d]
      IN  /\ f.error \notin {ErrSubscriber, AnalysisFailed(ErrSubscriber)}
          /\ f.results = ResultsFromAnswers(f)
          /\ f.pc = "yield" =>
               /\ Len(f.results) = f.i + 1
               /\ lastEvent[d] =
                    Some(PositionEvent(f.i, Len(f.tokenIds), f.results[f.i + 1].token))
          /\ f.pc = "returned" =>
               /\ Len(f.results) = Len(f.tokenIds)
               /\ received[d] = SetToBag(EventsOfRun(d))

C12_DeliveredToAllRegistered ==
  \A s, t \in Callers :
    (\E k \in DOMAIN progressCallbacks : progressCallbacks[k] = s)
      /\ (\E k \in DOMAIN progressCallbacks : progressCallbacks[k] = t)
      /\ received'[s] # received[s]
    => received'[t] # received[t]

C12_SubscriberFailureContained ==
  /\ []C12_ThrowingSubscriberState
  /\ [][C12_DeliveredToAllRegistered]_vars

\* a run whose subscriber throws each time returned five results, one of them
\* after a failed prediction
C12_Witness ==
  \E d \in Callers :
    /\ call[d].op = "analyzeText"
    /\ call[d].throws
    /\ call[d].pc = "returned"
    /\ Len(call[d].results) = 5
    /\ PredictorFailedAt(d, 3)
    /\ PredictorSucceededAt(d, 4)
    /\ BagCardinality(received[d]) = 8

(***************************************************************************)
(* C13 as stated: with config.maxLength set to an integer m, analyzeText   *)
(* scans exactly the first min(m, n) of the n tokens the tokenizer         *)
(* returned, and a run that returns has min(m, n) results.                 *)
(***************************************************************************)
\* the analyzeText call of c got n >= 1 tokens from the tokenizer and went on
Tokenized(c) ==
  /\ call[c].op = "analyzeText"
  /\ ~IsNull(call[c].encoded)
  /\ Val(call[c].encoded) # <<>>
  /\ call[c].error # AnalysisFailed(ErrSubscriber)

C13_TruncatesToAnyMaxLength ==
  \A c \in Callers :
    (Tokenized(c) /\ ~IsNull(call[c].config.maxLength)) =>
      LET m == Val(call[c].config.maxLength)
          n == Len(Val(call[c].encoded))
      IN  /\ Len(call[c].tokenIds) = Min(m, n)
          /\ call[c].pc = "returned" => Len(call[c].results) = Min(m, n)

(***************************************************************************)
(* C13 as amended: with config.maxLength set to a positive integer m,      *)
(* analyzeText scans exactly the first min(m, n) of the n tokens, in their *)
(* order: a run that returns has min(m, n) results, result i describes     *)
(* token i, and every Predictor call is for a position below m with a      *)
(* context taken from the first m tokens only.                             *)
(***************************************************************************)
C13_TruncatesToPositiveMaxLength ==
  \A c \in Callers :
    (Tokenized(c) /\ ~IsNull(call[c].config.maxLength)
       /\ Val(call[c].config.maxLength) >= 1) =>
      LET m == Val(call[c].config.maxLength)
          tokens == Val(call[c].encoded)
          n == Len(tokens)
          f == call[c]
      IN  /\ f.tokenIds = SubSeq(tokens, 1, Min(m, n))
          /\ Len(f.results) <= Min(m, n)
          /\ f.pc = "returned" => Len(f.results) = Min(m, n)
          /\ \A j \in DOMAIN f.results :
               f.results[j].position = j - 1 /\ f.results[j].tokenId = tokens[j]
          /\ \A k \in DOMAIN f.inferenceLog :
               /\ f.inferenceLog[k].position < m
               /\ f.inferenceLog[k].context =
                    SubSeq(tokens, 1, f.inferenceLog[k].position)

\* five tokens limited to four: the run returned four results after one
\* Predictor call
C13_Witness ==
  \E c \in Callers :
    /\ call[c].op = "analyzeText"
    /\ call[c].config.maxLength = Some(4)
    /\ call[c].encoded # Null /\ Len(Val(call[c].encoded)) = 5
    /\ call[c].pc = "returned"
    /\ Len(call[c].results) = 4
    /\ Len(call[c].inferenceLog) = 1

(***************************************************************************)
(* C14.  analyzeText never returns an empty result list: for every text    *)
(* and every config, a call that returns has at least one result.          *)
(***************************************************************************)
C14_NeverReturnsEmpty ==
  \A c \in Callers :
    (call[c].op = "analyzeText" /\ call[c].pc = "returned") =>
      Len(call[c].results) >= 1

(***************************************************************************)
(* C15.  Two analyzeText calls made one after the other on the analyzer,   *)
(* with the same text and config, a tokenizer that returned the same token *)
(* ids for both and a Predictor that answered equal contexts equally,      *)
(* return the same result list: same length and equal position, tokenId,   *)
(* isInitial, rank, probability and cumulativeProbability at every index.  *)
(* (Two analyzeText calls that both returned did not overlap: an           *)
(* overlapping one is rejected.  A call that got token ids had the         *)
(* preprocessed text of its argument tokenized.)                           *)
(***************************************************************************)
ReturnedRun(c) == call[c].op = "analyzeText" /\ call[c].pc = "returned"

SameInput(c, d) ==
  /\ call[c].config = call[d].config
  /\ call[c].encoded = call[d].encoded

\* the Predictor was deterministic over the two runs
SameAnswers(c, d) ==
  \A k \in DOMAIN call[c].inferenceLog, l \in DOMAIN call[d].inferenceLog :
    call[c].inferenceLog[k].context = call[d].inferenceLog[l].context =>
      /\ call[c].inferenceLog[k].ok = call[d].inferenceLog[l].ok
      /\ call[c].inferenceLog[k].probabilities = call[d].inferenceLog[l].probabilities

C15_SequentialRunsAgree ==
  \A c, d \in Callers :
    (c # d /\ ReturnedRun(c) /\ ReturnedRun(d) /\ SameInput(c, d) /\ SameAnswers(c, d)) =>
      /\ Len(call[c].results) = Len(call[d].results)
      /\ \A j \in DOMAIN call[c].results :
           LET r == call[c].results[j]
               q == call[d].results[j]
           IN  /\ r.position = q.position
               /\ r.tokenId = q.tokenId
               /\ r.isInitial = q.isInitial
               /\ r.rank = q.rank
               /\ r.probability = q.probability
               /\ r.cumulativeProbability = q.cumulativeProbability

\* two runs over the same five tokens returned, the Predictor having failed
\* for position 3 and answered for position 4 in both
C15_Witness ==
  /\ ReturnedRun("A") /\ ReturnedRun("B")
  /\ SameInput("A", "B") /\ SameAnswers("A", "B")
  /\ Len(call["A"].results) = 5
  /\ PredictorFailedAt("A", 3)
  /\ PredictorSucceededAt("A", 4)

(***************************************************************************)
(* C16.  For a target id t inside the distribution d, calculateTokenRank   *)
(* returns the number of ids with a larger probability plus the number of  *)
(* lower ids with the same probability; the unique maximum has rank 0; and *)
(* for d = [0.1, 0.5, 0.3, 0.1], t = 2 the rank is 1.                      *)
(***************************************************************************)
RankByCounting(d, t) ==
  Cardinality({j \in Ids(d) : d[j + 1] > d[t + 1]})
    + Cardinality({j \in Ids(d) : j < t /\ d[j + 1] = d[t + 1]})

C16_RankCountsTokensAhead ==
  (math.op = "calculateTokenRank" /\ math.t \in Ids(math.d)) =>
    /\ ~math.threw
    /\ math.out = Some(RankByCounting(math.d, math.t))
    /\ (\A j \in Ids(math.d) \ {math.t} : math.d[j + 1] < math.d[math.t + 1]) =>
         math.out = Some(0)
    /\ (math.d = <<1, 5, 3, 1>> /\ math.t = 2) => math.out = Some(1)

\* the rank of the second of two equally likely ids, behind two likelier ones
C16_Witness ==
  /\ math.op = "calculateTokenRank"
  /\ math.d = <<1, 5, 3, 1>>
  /\ math.t = 3
  /\ math.out = Some(3)

(***************************************************************************)
(* C17.  For a rank r in [0, len(d)], calculateCumulativeProbability(d, r) *)
(* is the sum of the r largest entries of d; it is 0 for r = 0; and when r *)
(* is the rank of a target t it is the total probability of the ids        *)
(* ordered ahead of t.                                                     *)
(***************************************************************************)
MaxOf(d) == CHOOSE v \in {d[k] : k \in DOMAIN d} : \A k \in DOMAIN d : d[k] <= v
WithoutOne(d, v) ==
  LET k == CHOOSE j \in DOMAIN d : d[j] = v
  IN  SubSeq(d, 1, k - 1) \o SubSeq(d, k + 1, Len(d))

RECURSIVE SumOfLargest(_, _)
SumOfLargest(d, r) ==
  IF r = 0 \/ Len(d) = 0 THEN 0
  ELSE MaxOf(d) + SumOfLargest(WithoutOne(d, MaxOf(d)), r - 1)

Ahead(d, t) ==
  {j \in Ids(d) : d[j + 1] > d[t + 1] \/ (d[j + 1] = d[t + 1] /\ j < t)}

RECURSIVE SumAt(_, _)
SumAt(d, ids) ==
  IF ids = {} THEN 0
  ELSE LET j == CHOOSE x \in ids : TRUE IN d[j + 1] + SumAt(d, ids \ {j})

C17_CumulativeIsMassAhead ==
  (math.op = "calculateCumulativeProbability" /\ math.r \in 0..Len(math.d)) =>
    /\ ~math.threw
    /\ math.out = Some(SumOfLargest(math.d, math.r))
    /\ math.r = 0 => math.out = Some(0)
    /\ \A t \in Ids(math.d) :
         math.r = RankByCounting(math.d, t) => math.out = Some(SumAt(math.d, Ahead(math.d, t)))

\* the mass ahead of rank 2 in [0.1, 0.5, 0.3, 0.1] is 0.8
C17_Witness ==
  /\ math.op = "calculateCumulativeProbability"
  /\ math.d = <<1, 5, 3, 1>>
  /\ math.r = 2
  /\ math.out = Some(8)

(***************************************************************************)
(* C18.  For a distribution of non-negative entries the cumulative         *)
(* probability does not decrease with the rank: what a call returned for   *)
(* rank r is at most the value for every rank above r and at least the     *)
(* value for every rank below it, ranks beyond len(d) included.            *)
(***************************************************************************)
C18_CumulativeIsMonotone ==
  math.op = "calculateCumulativeProbability" =>
    \A r2 \in MathRanks :
      /\ math.r <= r2 =>
           Val(math.out) <= calculateCumulativeProbability(math.d, r2)
      /\ r2 <= math.r =>
           calculateCumulativeProbability(math.d, r2) <= Val(math.out)

\* a rank beyond the end of the distribution gives the whole mass
C18_Witness ==
  /\ math.op = "calculateCumulativeProbability"
  /\ math.d = <<5, 3, 1>>
  /\ math.r = 5
  /\ math.out = Some(9)

AnswerAt(c, pos) ==
  LET k == CHOOSE k \in DOMAIN call[c].inferenceLog :
             call[c].inferenceLog[k].position = pos
  IN  call[c].inferenceLog[k].probabilities

StatsReturned == math.op = "calculateStatistics"

InPredictedSet(r) == r.isInitial = FALSE /\ r.rank # Null

PredictedPositions == {j \in 1..Len(math.results) : InPredictedSet(math.results[j])}

IsZero(f) == f.num = 0 /\ f.den # 0

DerivedFieldsZero(stats) ==
  /\ stats.predictedTokens = 0
  /\ IsZero(stats.top1Accuracy)
  /\ IsZero(stats.top5Accuracy)
  /\ IsZero(stats.top10Accuracy)
  /\ IsZero(stats.averageRank)
  /\ IsZero(stats.averageCumulativeProbability)
  /\ IsZero(stats.medianRank)
  /\ IsZero(stats.medianCumulativeProbability)

FracEq(f, g) == f.num * g.den = g.num * f.den
FracLeq(f, g) == f.num * g.den <= g.num * f.den

RanksBelow(k) == {j \in PredictedPositions : Val(math.results[j].rank) < k}

\* C22: with a non-empty predicted set, each of top1/top5/top10Accuracy is
\* (number of predicted results with rank < k) / (size of the predicted set),
\* the three are ordered 0 <= top1 <= top5 <= top10 <= 1, and top1Accuracy is 1
\* when every predicted rank is 0.
C22_TopKIsShareBelowK ==
  (StatsReturned /\ PredictedPositions # {}) =>
    LET stats == Val(math.out)
        size == Cardinality(PredictedPositions)
    IN  /\ FracEq(stats.top1Accuracy, Frac(Cardinality(RanksBelow(1)), size))
        /\ FracEq(stats.top5Accuracy, Frac(Cardinality(RanksBelow(5)), size))
        /\ FracEq(stats.top10Accuracy, Frac(Cardinality(RanksBelow(10)), size))
        /\ FracLeq(Frac(0, 1), stats.top1Accuracy)
        /\ FracLeq(stats.top1Accuracy, stats.top5Accuracy)
        /\ FracLeq(stats.top5Accuracy, stats.top10Accuracy)
        /\ FracLeq(stats.top10Accuracy, Frac(1, 1))
        /\ (RanksBelow(1) = PredictedPositions
              => FracEq(stats.top1Accuracy, Frac(1, 1)))

C22_Witness ==
  /\ StatsReturned
  /\ Cardinality(PredictedPositions) = 3
  /\ Cardinality(RanksBelow(1)) = 1
  /\ Cardinality(RanksBelow(5)) = 2
  /\ Cardinality(RanksBelow(10)) = 2
  /\ Val(math.out).top5Accuracy = Frac(2, 3)

RankAt(j) == Val(math.results[j].rank)

\* The k-th smallest predicted rank, found by counting and not by sorting.
KthSmallestRank(k) ==
  CHOOSE v \in {RankAt(j) : j \in PredictedPositions} :
    /\ Cardinality({j \in PredictedPositions : RankAt(j) < v}) < k
    /\ Cardinality({j \in PredictedPositions : RankAt(j) <= v}) >= k

RECURSIVE SumOfRanks(_)
SumOfRanks(positions) ==
  IF positions = {} THEN 0
  ELSE LET j == CHOOSE p \in positions : TRUE
       IN  RankAt(j) + SumOfRanks(positions \ {j})

\* C23: medianRank is the median of the predicted ranks in ascending numeric
\* order (the middle value of an odd-sized set, the mean of the two middle
\* values of an even-sized set), whatever the order of the results in the list,
\* and averageRank is the arithmetic mean of the same ranks.
C23_MedianAndMeanOfRanks ==
  (StatsReturned /\ PredictedPositions # {}) =>
    LET stats == Val(math.out)
        size == Cardinality(PredictedPositions)
    IN  /\ size % 2 = 1 =>
              FracEq(stats.medianRank, Frac(KthSmallestRank((size + 1) \div 2), 1))
        /\ size % 2 = 0 =>
              FracEq(stats.medianRank,
                     Frac(KthSmallestRank(size \div 2)
                            + KthSmallestRank(size \div 2 + 1), 2))
        /\ FracEq(stats.averageRank, Frac(SumOfRanks(PredictedPositions), size))

C23_Witness ==
  /\ StatsReturned
  /\ Len(math.results) = 4
  /\ PredictedPositions = 1..4
  /\ <<RankAt(1), RankAt(2), RankAt(3), RankAt(4)>> = <<10, 0, 5, 4>>
  /\ Val(math.out).medianRank = Frac(9, 2)
  /\ Val(math.out).averageRank = Frac(19, 4)

SameButTotal(s1, s2) ==
  [s1 EXCEPT !.totalTokens = 0] = [s2 EXCEPT !.totalTokens = 0]

FailedPredictorCalls(c) ==
  {k \in DOMAIN call[c].inferenceLog :
     call[c].inferenceLog[k].settled /\ ~call[c].inferenceLog[k].ok}

\* the statistics were computed from the list that caller c's call returned
StatsOfReturnedScan(c) ==
  /\ StatsReturned
  /\ call[c].pc = "returned"
  /\ math.results = call[c].results

\* C24: predictedTokens is the number of results with isInitial=false and a
\* non-null rank; the accuracies, averages and medians are those of the list
\* without its initial and failed results; and for the list a scan of n tokens
\* returned the count is n minus the prefix length minus the number of failed
\* Predictor calls.
C24_PredictedTokensCountsPredictedSet ==
  StatsReturned =>
    LET stats == Val(math.out) IN
    /\ stats.predictedTokens = Cardinality(PredictedPositions)
    /\ SameButTotal(stats,
                    EngineCalculateStatistics(SelectSeq(math.results, InPredictedSet)))
    /\ \A c \in Callers :
         StatsOfReturnedScan(c) =>
           LET n == Len(call[c].tokenIds) IN
           stats.predictedTokens =
             n - Min(INITIAL_TOKENS_COUNT, n) - Cardinality(FailedPredictorCalls(c))

C24_Witness ==
  /\ StatsOfReturnedScan("A")
  /\ Len(call["A"].tokenIds) = 5
  /\ Cardinality(FailedPredictorCalls("A")) = 1
  /\ Val(math.out).predictedTokens = 1
  /\ Val(math.out).totalTokens = 5

(***************************************************************************)
(* C25: decodeToken never fails, so a decode problem never aborts a scan:  *)
(* no scan ends rejected with the error that decodeToken throws when the   *)
(* tokenizer is not loaded.  The code violates it: line 469 throws before  *)
(* the try whose catch returns the placeholder.                            *)
(***************************************************************************)
C25_DecodeNeverAbortsScan ==
  \A c \in Callers :
    ~ /\ call[c].op = "analyzeTokenSequence"
      /\ call[c].pc = "failed"
      /\ call[c].error = ErrTokenizerNotLoaded

InRange(event) ==
  /\ 0 <= event.current
  /\ event.current <= event.total
  /\ event.percentage.den > 0
  /\ 0 <= event.percentage.num
  /\ event.percentage.num <= 100 * event.percentage.den

\* C26: every progress event delivered to a subscriber, per-position or
\* tokenizing/starting/complete, has 0 <= current <= total and
\* 0 <= percentage <= 100.
C26_ProgressEventsInRange ==
  \A c \in Callers :
    /\ \A event \in BagToSet(received[c]) : InRange(event)
    /\ ~IsNull(lastEvent[c]) => InRange(Val(lastEvent[c]))

C26_Witness ==
  /\ call["A"].pc = "returned"
  /\ BagIn(TokenizingEvent, received["A"])
  /\ BagIn(StartingEvent(5), received["A"])
  /\ BagIn(PositionEvent(1, 5, decodeToken(call["A"].tokenIds[2])), received["A"])
  /\ BagIn(PositionEvent(4, 5, decodeToken(call["A"].tokenIds[5])), received["A"])
  /\ lastEvent["A"] = Some(CompleteEvent(5))

(***************************************************************************)
(* C27: a progress subscriber is scoped to the analyzeText call it was     *)
(* passed to: it receives nothing after that call has settled, nothing     *)
(* from any other run, and the subscriber of a call rejected as concurrent *)
(* is never registered and receives nothing.  The code violates the second *)
(* part: a scan entered through analyzeTokenSequence while the call is in  *)
(* flight notifies the call's subscriber.                                  *)
(***************************************************************************)
IsRegistered(c) == \E k \in 1..Len(progressCallbacks) : progressCallbacks[k] = c

C27_NothingAfterSettled ==
  \A c \in Callers :
    call[c].pc \in Settled =>
      (call'[c] = call[c] => received'[c] = received[c] /\ lastEvent'[c] = lastEvent[c])

C27_OnlyOwnEvents ==
  \A c \in Callers :
    call[c].op = "analyzeText" => BagToSet(received[c]) \subseteq EventsOfRun(c)

C27_RejectedNeverRegistered ==
  \A c \in Callers :
    call[c].pc = "rejected" => (~IsRegistered(c) /\ received[c] = EmptyBag)

C27_SubscriberScopedToItsCall ==
  /\ [][C27_NothingAfterSettled]_vars
  /\ []C27_OnlyOwnEvents
  /\ []C27_RejectedNeverRegistered

(***************************************************************************)
(* C28: across any sequence of loadModel attempts, dispose() calls and     *)
(* failed attempts included, the model is fetched from the network only    *)
(* when the cache has no entry for the model path; once a download has     *)
(* completed the cache holds the model, and every later load reads it from *)
(* the cache and fetches nothing.                                          *)
(***************************************************************************)
C28_FetchOnlyOnMiss ==
  modelService'.fetches # modelService.fetches =>
    /\ ~modelService.cached
    /\ modelService'.fetches = modelService.fetches + 1

C28_CachedLoadsReadCache ==
  modelService.cached =>
    /\ modelService'.cached
    /\ modelService'.fetches = modelService.fetches
    /\ (modelService.pc = "match" /\ modelService'.pc \notin {"match", "idle"})
          => modelService'.pc = "read"

C28_DownloadIsCached ==
  /\ modelService.downloads >= 1 => modelService.cached
  /\ modelService.downloads <= 1
  /\ modelService.downloads <= modelService.fetches
  /\ modelService.pc \in {"fetch", "put"} => ~modelService.cached

C28_ModelDownloadedOnce ==
  /\ []C28_DownloadIsCached
  /\ [][C28_FetchOnlyOnMiss /\ C28_CachedLoadsReadCache]_vars

\* a first attempt failed while downloading, a second downloaded and stored the
\* model, and a third load is reading it from the cache
C28_Witness ==
  /\ modelService.calls = 3
  /\ modelService.fetches = 2
  /\ modelService.downloads = 1
  /\ modelService.pc = "read"

(***************************************************************************)
(* C29: runInference fails with an error, without invoking the backend     *)
(* session, when the model is not loaded, when the context is empty or     *)
(* when it is longer than maxSequenceLength; a scan records every position *)
(* whose context exceeds the limit with null prediction fields and goes on *)
(* to the next position, so that the run returns a result for every        *)
(* position.                                                               *)
(***************************************************************************)
Rejected(inputIds, session) ==
  \/ session = "null"
  \/ Len(inputIds) = 0
  \/ Len(inputIds) > modelService.maxSequenceLength

C29_GuardsThrowBeforeSession ==
  ~IsNull(modelService.run) =>
    LET r == Val(modelService.run) IN
    Rejected(r.inputIds, r.session) =>
      /\ ~r.outcome.ok
      /\ r.outcome.error # <<>>
      /\ ~r.outcome.sessionRun

C29_TooLongContextsRecordedNull ==
  \A c \in Callers :
    /\ \A k \in DOMAIN call[c].inferenceLog :
         LET e == call[c].inferenceLog[k] IN
         (e.settled /\ Len(e.context) > modelService.maxSequenceLength) =>
           /\ ~e.ok
           /\ e.position + 1 \in DOMAIN call[c].results
           /\ AllNull(call[c].results[e.position + 1])
    /\ call[c].pc = "returned" =>
         /\ Len(call[c].results) = Len(call[c].tokenIds)
         /\ \A j \in DOMAIN call[c].results :
              (j - 1 >= INITIAL_TOKENS_COUNT /\ j - 1 > modelService.maxSequenceLength)
                => AllNull(call[c].results[j])

C29_ScanGoesOn ==
  \A c \in Callers :
    (/\ call[c].pc = "infer"
     /\ call'[c] # call[c]
     /\ Len(ContextTokens(call[c].tokenIds, call[c].i)) > modelService.maxSequenceLength)
      => /\ call'[c].pc = "yield"
         /\ Len(call'[c].results) = Len(call[c].results) + 1

C29_RunInferenceGuards ==
  /\ []C29_GuardsThrowBeforeSession
  /\ []C29_TooLongContextsRecordedNull
  /\ [][C29_ScanGoesOn]_vars

\* a scan of five tokens with the limit at three: position 3 was predicted,
\* position 4 (a context of four tokens) was not, and a direct call with a
\* context of four tokens was refused while the session was set
C29_Witness ==
  /\ call["A"].pc = "returned"
  /\ Len(call["A"].tokenIds) = ShortSequenceLength + 2
  /\ NoneNull(call["A"].results[ShortSequenceLength + 1])
  /\ AllNull(call["A"].results[ShortSequenceLength + 2])
  /\ ~IsNull(modelService.run)
  /\ Val(modelService.run).session = "set"
  /\ Len(Val(modelService.run).inputIds) = ShortSequenceLength + 1
  /\ ~Val(modelService.run).outcome.sessionRun

(***************************************************************************)
(* C30: a loadTokenizer call that performs a load never fails and ends     *)
(* with a tokenizer set: it asks the local files first, HuggingFace only   *)
(* if the local load failed, the SimpleTokenizer only if both failed, and  *)
(* keeps the first that succeeds; once a tokenizer is set no later         *)
(* loadTokenizer call replaces it.                                         *)
(***************************************************************************)
FallbackChain == <<"local", "huggingface", "simple">>

\* the sources were asked in the order of the chain, each only after the one
\* before it had failed
InChainOrder(tried) ==
  /\ Len(tried) <= Len(FallbackChain)
  /\ \A k \in DOMAIN tried :
       /\ tried[k].source = FallbackChain[k]
       /\ k < Len(tried) => tried[k].outcome = "rejected"

C30_ChainEndsWithTokenizer ==
  /\ InChainOrder(tokenizerService.tried)
  /\ (tokenizerService.pc = "idle" /\ tokenizerService.tried # <<>>) =>
       LET last == tokenizerService.tried[Len(tokenizerService.tried)]
       IN  /\ last.outcome = "fulfilled"
           /\ tokenizer = last.source
           /\ ~tokenizerService.isLoading
  /\ tokenizerService.pc # "idle" => (tokenizer = "null" /\ tokenizerService.isLoading)
  /\ tokenizerService.pc = "huggingface" => Len(tokenizerService.tried) = 1

C30_TokenizerNeverReplaced ==
  tokenizer # "null" =>
    /\ tokenizer' = tokenizer
    /\ tokenizerService'.tried = tokenizerService.tried
    /\ tokenizerService'.pc = "idle"

C30_LoadTokenizerFallsBack ==
  /\ []C30_ChainEndsWithTokenizer
  /\ [][C30_TokenizerNeverReplaced]_vars

\* both remote sources failed, the SimpleTokenizer was kept, and two later
\* calls left it in place
C30_Witness ==
  /\ tokenizer = "simple"
  /\ Len(tokenizerService.tried) = 3
  /\ tokenizerService.calls = 3
  /\ tokenizerService.pc = "idle"

(***************************************************************************)
(* Claims about the calls of loadModel, checked under SpecServices.        *)
(***************************************************************************)
\* the k-th loadModel call is made / is resolved / is rejected by this step
LoadCalled(k) == k \notin DOMAIN modelService.loads /\ k \in DOMAIN modelService'.loads

LoadSettles(k, outcome) ==
  /\ k \in DOMAIN modelService'.loads
  /\ modelService'.loads[k].outcome = outcome
  /\ (k \in DOMAIN modelService.loads => modelService.loads[k].outcome # outcome)

\* C31: whenever a loadModel call completes without error the session exists,
\* a call made while another call is loading included.  The code violates it:
\* lines 623-626 return at once while the other call is still loading.
C31_ResolvedStep ==
  \A k \in 1..MaxLoads : LoadSettles(k, "resolved") => modelService'.session = "set"

C31_ResolvedLoadMeansLoaded == [][C31_ResolvedStep]_vars

\* C35: a loadModel call that passes onProgress while the model is already
\* loaded has its callback invoked with a 'ready' event before it returns.
\* The code violates it: line 619 notifies the callbacks in loadingCallbacks,
\* and onProgress is not among them.
C35_AlreadyLoadedStep ==
  \A k \in 1..MaxLoads :
    (LoadCalled(k) /\ modelService.session = "set" /\ modelService'.loads[k].onProgress)
      => modelService'.loads[k].ready >= 1

C35_AlreadyLoadedNotifiesReady == [][C35_AlreadyLoadedStep]_vars

(***************************************************************************)
(* C37: when a loadModel attempt fails (cache access, download or session  *)
(* creation), every callback registered for the attempt is invoked with    *)
(* exactly one 'error' event and no 'ready' event, the call rejects, and   *)
(* the service is left not loading, without a session and without          *)
(* callbacks, so that the next loadModel call starts a fresh attempt.      *)
(***************************************************************************)
RegisteredCallbacks ==
  {modelService.loadingCallbacks[j] : j \in DOMAIN modelService.loadingCallbacks}

C37_FailingStep ==
  \A k \in 1..MaxLoads :
    LoadSettles(k, "rejected") =>
      /\ k = modelService.loader
      /\ \A cb \in RegisteredCallbacks :
           /\ modelService'.loads[cb].error = 1
           /\ modelService.loads[cb].error = 0
           /\ modelService'.loads[cb].ready = 0
      /\ ~modelService'.isLoading
      /\ modelService'.session = "null"
      /\ modelService'.loadingCallbacks = <<>>
      /\ modelService'.loader = 0

C37_FreshAttemptStep ==
  \A k \in 2..MaxLoads :
    (LoadCalled(k) /\ modelService.loader = 0 /\ modelService.session = "null") =>
      /\ modelService'.loads[k].outcome = "pending"
      /\ modelService'.loader = k
      /\ modelService'.isLoading
      /\ modelService'.pc = "match"

C37_NothingLeftOver ==
  /\ modelService.loader = 0 =>
       (~modelService.isLoading /\ modelService.loadingCallbacks = <<>>
          /\ modelService.pc = "idle")
  /\ \A k \in DOMAIN modelService.loads :
       /\ modelService.loads[k].error <= 1
       /\ modelService.loads[k].error = 1 => modelService.loads[k].ready = 0

C37_FailedLoadCleansUp ==
  /\ []C37_NothingLeftOver
  /\ [][C37_FailingStep /\ C37_FreshAttemptStep]_vars

\* the first attempt failed with two callbacks registered (its own and that of
\* a call made meanwhile), and the third call started a fresh attempt
C37_Witness ==
  /\ Len(modelService.loads) = 3
  /\ modelService.loads[1].outcome = "rejected"
  /\ modelService.loads[1].onProgress /\ modelService.loads[1].error = 1
  /\ modelService.loads[2].onProgress /\ modelService.loads[2].error = 1
  /\ modelService.loads[3].outcome = "pending"
  /\ modelService.loader = 3

(***************************************************************************)
(* C32: whenever a loadTokenizer call completes a tokenizer is set, a call *)
(* made while another call is loading included.  The code violates it:     *)
(* lines 381-383 return at once while the other call is still loading.     *)
(***************************************************************************)
\* a loadTokenizer call returns by this step: at once, or at the end of its load
LoadTokenizerReturns ==
  \/ /\ tokenizerService'.calls = tokenizerService.calls + 1
     /\ tokenizerService'.pc = tokenizerService.pc
  \/ /\ tokenizerService.pc # "idle"
     /\ tokenizerService'.pc = "idle"

C32_ReturnStep == LoadTokenizerReturns => tokenizer' # "null"

C32_CompletedLoadMeansTokenizer == [][C32_ReturnStep]_vars

(***************************************************************************)
(* C36: every runInference call a scan makes has at least one context      *)
(* token (the first predicted position is min(INITIAL_TOKENS_COUNT, n),    *)
(* which is at least 1 for a non-empty sequence), so no null result comes  *)
(* from the empty-input check.                                             *)
(***************************************************************************)
C36_ContextNeverEmpty ==
  \A c \in Callers :
    /\ \A k \in DOMAIN call[c].inferenceLog :
         LET e == call[c].inferenceLog[k] IN
         /\ Len(e.context) >= 1
         /\ Len(e.context) = e.position
         /\ e.position >= Min(INITIAL_TOKENS_COUNT, Len(call[c].tokenIds))
    /\ call[c].pc = "infer" =>
         Len(ContextTokens(call[c].tokenIds, call[c].i)) >= 1
    /\ \A j \in DOMAIN call[c].results :
         (~call[c].results[j].isInitial /\ AllNull(call[c].results[j])) => j - 1 >= 1

\* a scan of four tokens whose only runInference call, with the three tokens
\* before position 3 as its context, failed
C36_Witness ==
  /\ call["A"].pc = "returned"
  /\ Len(call["A"].tokenIds) = 4
  /\ Len(call["A"].inferenceLog) = 1
  /\ Len(call["A"].inferenceLog[1].context) = 3
  /\ ~call["A"].inferenceLog[1].ok
  /\ AllNull(call["A"].results[4]) /\ ~call["A"].results[4].isInitial

(***************************************************************************)
(* C34: over the events delivered to the subscriber of one analyzeText     *)
(* run, percentage never decreases from one event to the next.  The code   *)
(* violates it for n >= 11: 'Starting analysis...' carries 10 and the      *)
(* event for position 0 carries 100 / n.                                   *)
(***************************************************************************)
C34_NextEventNotLower ==
  \A c \in Callers :
    (/\ call[c].op = "analyzeText"
     /\ ~IsNull(lastEvent[c])
     /\ ~IsNull(lastEvent'[c])
     /\ lastEvent'[c] # lastEvent[c])
      => LET before == Val(lastEvent[c]).percentage
             after == Val(lastEvent'[c]).percentage
         IN  before.num * after.den <= after.num * before.den

C34_PercentageNeverDecreases == [][C34_NextEventNotLower]_vars


(***************************************************************************)
(* C33: in the App, isAnalyzing (the UI flag) is true whenever a run       *)
(* started by handleAnalyze is in flight in the engine, under every        *)
(* interleaving of handleAnalyze invocations; and once every handleAnalyze *)
(* has settled with no run in flight, the App shows results without an     *)
(* error or an error without results, never both.                          *)
(* Refuted: a second handleAnalyze is rejected by the engine and its       *)
(* finally block clears the UI flag while the first run goes on; the first *)
(* run then stores its results next to the second one's error.             *)
(***************************************************************************)
RunInFlight(c) == call[c].op = "analyzeText" /\ call[c].pc \notin Settled \cup {"idle"}

HandleAnalyzePending(c) == call[c].op = "analyzeText"

C33_UIFlagCoversRunAndOutcomeExclusive ==
  /\ (\E c \in Callers : RunInFlight(c)) => app.isAnalyzing
  /\ (\A c \in Callers : ~HandleAnalyzePending(c))
       => ~(app.analysisResults # <<>> /\ ~IsNull(app.analysisError))

(***************************************************************************)
(* C38: for every text and every limit n >= 1, every piece returned by     *)
(* chunkText(text, n) and every line returned by wordWrap(text, n) has     *)
(* length at most n, also when the text has a word longer than n.          *)
(* Refuted: a word is cut once only, so what is left of a word of more     *)
(* than 2n characters is kept whole, and a long word that follows a        *)
(* non-empty line is never cut at all.                                     *)
(***************************************************************************)
C38_PiecesWithinLimit ==
  textUtils.op \in {"chunkText", "wordWrap"}
    => \A k \in 1..Len(Val(textUtils.out)) :
         Len(Val(textUtils.out)[k]) <= textUtils.width

====
